---- MODULE Spec2Model ----
(***************************************************************************)
(* IBGatewayManager (src/src/gateway-manager.ts) as a state machine on the *)
(* Node.js event loop.  Every action is one event-loop task: the code that *)
(* runs from the completion of an awaited I/O operation (or from an        *)
(* incoming call, or from a child-process event) up to the next await of   *)
(* an I/O operation.  Continuations of callers awaiting the background     *)
(* startup promise are microtasks: they are queued in mq when the promise  *)
(* settles and run, in registration order, before any further task.        *)
(***************************************************************************)
EXTENDS Integers, Sequences, FiniteSets, TLC

(* ---- bounds of the model ---- *)
NumCalls == 2
MaxSpawns == 2
(* rounds of waitForGateway before it gives up.  The source allows 30; a  *)
(* failed round changes nothing but the counter, so a smaller budget       *)
(* yields the same behaviours of every other variable.                     *)
MaxAttempts == 2
(* ports above the default one whose occupation is drawn freely when the   *)
(* port probes are examined on their own                                   *)
ScanWidth == 5
(* MCP servers created in one host process *)
MaxServers == 2
(* largest maxRetries an executeQuery call is given (the default is 10) *)
MaxRetriesLimit == 3
(* requests of one kind the IBClient may have in flight at once *)
MaxInFlight == 2
(* cleanup() calls that may be in flight at once *)
MaxCleanups == 2
(* calls of FlexQueryStorage operations made on one storage *)
MaxStorageCalls == 3

(* ---- program constants ---- *)
defaultPort == 5000
altStartPort == 5001
altMaxAttempts == 9
(* rounds of waitForGateway, one second apart *)
maxAttempts == 30
commonPorts == <<5000, 5001, 5002, 5003, 5004, 5005>>

Callers == 1..NumCalls
BgOwner == 0
Owners == {BgOwner} \cup Callers
Procs == 1..MaxSpawns
Ports == defaultPort..(altStartPort + altMaxAttempts - 1)

(* what the host may look like when the manager is constructed: the ports  *)
(* held by processes that do not look like a gateway                       *)
HostScenarios ==
  { [installed |-> TRUE, runtime |-> TRUE, occupied |-> {}],
    [installed |-> TRUE, runtime |-> TRUE, occupied |-> {defaultPort}],
    [installed |-> TRUE, runtime |-> TRUE, occupied |-> Ports],
    [installed |-> FALSE, runtime |-> TRUE, occupied |-> {}],
    [installed |-> TRUE, runtime |-> FALSE, occupied |-> {}] }
(* port on which a gateway started by someone else may come up             *)
ExternalPorts == {defaultPort + 2}

NoSeq == [st |-> "none", attempts |-> 0, ovl |-> 0]
NoProc == [st |-> "none", port |-> 0, conf |-> 0, printed |-> FALSE]

(* external mode: hosts and ports an endpoint may be configured with *)
ExternalHosts == {"localhost", "external-host"}
EndpointPorts == {defaultPort, 4001}
NoEndpoint == [host |-> "", port |-> 0]

(* ---- files of the gateway's configuration directory (clientportal.gw/root) *)
(* a file name is the sequence of its characters                              *)
DigitChars == <<"0", "1", "2", "3", "4", "5", "6", "7", "8", "9">>
confStem == <<"c", "o", "n", "f">>
yamlSuffix == <<".", "y", "a", "m", "l">>

(* the decimal digits of a port number, as template literals print them *)
RECURSIVE toDigits(_)
toDigits(n) ==
  IF n < 10 THEN <<DigitChars[n + 1]>>
  ELSE toDigits(n \div 10) \o <<DigitChars[(n % 10) + 1]>>

(* conf.yaml, the configuration the gateway ships with *)
originalConfigName == confStem \o yamlSuffix
(* conf-<port>.yaml, the overlay for an alternate port *)
tempConfigName(port) == confStem \o <<"-">> \o toDigits(port) \o yamlSuffix

(* a name that starts with conf and ends with .yaml *)
isTempConfigLoose(name) ==
  /\ Len(name) >= Len(confStem) + Len(yamlSuffix)
  /\ SubSeq(name, 1, Len(confStem)) = confStem
  /\ SubSeq(name, Len(name) - Len(yamlSuffix) + 1, Len(name)) = yamlSuffix

(* file.match(/^conf-\d+\.yaml$/) *)
isTempConfig(name) ==
  LET first == Len(confStem) + 2
      last == Len(name) - Len(yamlSuffix)
  IN /\ last >= first
     /\ SubSeq(name, 1, Len(confStem)) = confStem
     /\ name[Len(confStem) + 1] = "-"
     /\ \A i \in first..last : \E d \in 1..Len(DigitChars) : name[i] = DigitChars[d]
     /\ SubSeq(name, last + 1, Len(name)) = yamlSuffix

(* files another program may have left in the directory: conf-.yaml and      *)
(* conf-5001.yaml.bak                                                        *)
StrayFiles == { confStem \o <<"-">> \o yamlSuffix,
                tempConfigName(altStartPort) \o <<".", "b", "a", "k">> }
(* ports for which another manager instance using the same installation may  *)
(* write an overlay                                                          *)
ForeignPorts == {altStartPort + 1}

(* events on which the manager runs cleanup(), and those the entry point     *)
(* index.ts handles as well                                                  *)
Signals == {"SIGINT", "SIGTERM", "SIGHUP", "disconnect",
            "uncaughtException", "unhandledRejection"}
entryHandled == {"SIGINT", "SIGTERM", "uncaughtException", "unhandledRejection"}
NoCleanup == [sig |-> "", st |-> "none", todo |-> {}, removed |-> {}]
NewClient == [tickleInterval |-> FALSE, authChecks |-> 0, tickles |-> 0,
              destroyed |-> FALSE, tickledAfterDestroy |-> FALSE]
NoAnswer == [data |-> FALSE, error |-> "", errorCode |-> ""]
(* ports the IBClient may be configured with *)
ClientPorts == {defaultPort, altStartPort}
maxAuthAttempts == 3
NoRequest == [st |-> "none", port |-> 0, fresh |-> FALSE]
NewSession == [port |-> defaultPort, isAuthenticated |-> FALSE, authAttempts |-> 0,
               tickleInterval |-> FALSE,
               auths |-> [i \in 1..MaxInFlight |-> NoRequest],
               checks |-> [i \in 1..MaxInFlight |-> NoRequest],
               last |-> "none", failed |-> 0, authPort |-> 0]
(* IB query ids and names that saved flex queries are given *)
QueryIds == {"q1", "q2"}
QueryNames == {"n1", "n2"}
NoStorageCall == [op |-> "none", st |-> "none", id |-> 0, name |-> "", queryId |-> "",
                  data |-> {}, result |-> "none"]
(* after initialize(): the storage file holds an empty list of queries *)
NewStorage == [file |-> {}, store |-> {},
               calls |-> [k \in 1..MaxStorageCalls |-> NoStorageCall]]
(* response.data of a request of placeOrder: whether it is an array, its   *)
(* length, and whether its first element has a truthy id, message and      *)
(* messageIds; kind tells what the gateway meant by it                     *)
NoResponse == [kind |-> "none", isArray |-> FALSE, length |-> 0, id |-> FALSE,
               message |-> FALSE, messageIds |-> FALSE]
(* IBClient.placeOrder: no call made yet *)
NoOrder == [st |-> "idle", suppressConfirmations |-> "undefined", orderType |-> "",
            price |-> FALSE, stopPrice |-> FALSE, body |-> {}, sent |-> <<>>,
            response |-> NoResponse, result |-> NoResponse]
NoQuery == [st |-> "idle", maxRetries |-> 0, i |-> 0, polls |-> 0,
            sent |-> "", answers |-> <<>>, result |-> NoAnswer]

VARIABLES
  (* fields of IBGatewayManager *)
  isStarting, isReady, gatewayProcess, currentPort, backgroundStartupPromise,
  (* coroutines: calls of ensureGatewayReady/quickStartGateway, startup      *)
  (* sequences (startGatewayInternal), awaiters of the background promise    *)
  pc, seq, awaiters, mq,
  (* the host: installation, bundled runtime, ports, spawned processes       *)
  installed, runtimePresent, occupied, extGateway, procs, overlays,
  (* external mode: the configured endpoint, whether a gateway on the remote *)
  (* host answers there, and the health probes each call has issued          *)
  externalEndpoint, remoteAlive, probes,
  (* shutdown of the host process: the files of the gateway's configuration *)
  (* directory that this manager did not write, the host process (running,  *)
  (* or the event whose handler called process.exit), the cleanup() calls   *)
  (* in flight, and whether the entry point installed its shutdown handlers *)
  dir, nodeProcess, cleanups, shutdownHooks,
  (* the server: the port the IBClient is configured with, and what each    *)
  (* caller (initializeGateway or a tool handler) did after its call of the *)
  (* manager returned                                                       *)
  clientPort, tool,
  (* the MCP servers created so far, each with the configuration it was     *)
  (* created with and the names passed to server.tool, in order             *)
  servers,
  (* the FlexQueryClient.executeQuery call under way *)
  flex,
  (* the IBClient's session maintenance: the interval timer, the requests   *)
  (* in flight, whether destroy() was called and whether a tickle request   *)
  (* was sent after that                                                    *)
  ibClient,
  (* health probes issued by the waitForGateway loop under study *)
  probeCount,
  (* the IBClient's authentication: config.port, isAuthenticated,           *)
  (* authAttempts, the tickle interval, the authenticate() calls and the    *)
  (* status checks in flight with the port their request was sent to; and,  *)
  (* as history, the outcome of the latest operation, the attempts started  *)
  (* since the last reset of the counter that have failed, and the port of  *)
  (* the request whose answer marked the client authenticated               *)
  session,
  (* FlexQueryStorage: the queries in the storage file, this.store.queries,  *)
  (* and the calls of its operations with the text each is writing           *)
  storage,
  (* the IBClient.placeOrder call under way: the request, the HTTP requests  *)
  (* it has sent, the gateway's answer to the order POST and what the call   *)
  (* returned                                                                *)
  order,
  (* history *)
  flagsReset, fellThrough, unhandled

mgrVars == <<isStarting, isReady, gatewayProcess, currentPort, backgroundStartupPromise>>
coVars == <<pc, seq, awaiters, mq>>
hostVars == <<installed, runtimePresent, occupied, extGateway, procs, overlays>>
histVars == <<flagsReset, fellThrough, unhandled>>
modeVars == <<externalEndpoint, remoteAlive, probes>>
shutVars == <<dir, nodeProcess, cleanups, shutdownHooks>>
toolVars == <<clientPort, tool>>
libVars == <<servers, flex, ibClient, probeCount>>
appVars == <<session, storage, order>>
auxVars == <<shutVars, toolVars, libVars, appVars>>
vars == <<mgrVars, coVars, hostVars, modeVars, auxVars, histVars>>

(* the host process runs, no cleanup was asked for, and the directory holds  *)
(* the shipped configuration only                                            *)
NoShutdown ==
  /\ dir = {originalConfigName}
  /\ nodeProcess = "running"
  /\ cleanups = [i \in 1..MaxCleanups |-> NoCleanup]
  /\ shutdownHooks = FALSE
  /\ clientPort = defaultPort
  /\ tool = [c \in Callers |-> "none"]
  /\ servers = <<>>
  /\ flex = NoQuery
  /\ ibClient = NewClient
  /\ probeCount = 0
  /\ session = NewSession
  /\ storage = NewStorage
  /\ order = NoOrder

(* ---- the host as the port prober and the health checker see it ---- *)
Listening(port) ==
  \E p \in Procs : procs[p].st = "listening" /\ procs[p].port = port

GatewayOn(port) == extGateway = port \/ Listening(port)

isPortAvailable(port) == ~(port \in occupied \/ GatewayOn(port))

isGatewayProcess(port) == GatewayOn(port)

(* a scan that examines n + 1 ports instead of n *)
RECURSIVE scanPortsInclusive(_, _, _)
scanPortsInclusive(startPort, i, n) ==
  IF i > n THEN 0
  ELSE IF isPortAvailable(startPort + i) THEN startPort + i
  ELSE scanPortsInclusive(startPort, i + 1, n)

RECURSIVE scanPorts(_, _, _)
scanPorts(startPort, i, n) ==
  IF i >= n THEN 0
  ELSE IF isPortAvailable(startPort + i) THEN startPort + i
  ELSE scanPorts(startPort, i + 1, n)

(* 0 stands for the thrown "No available ports found" error *)
findAvailablePort(startPort, n) == scanPorts(startPort, 0, n)

(* a scan that returns the first port in use, whatever holds it *)
RECURSIVE scanGatewaysAnyHolder(_)
scanGatewaysAnyHolder(i) ==
  IF i > Len(commonPorts) THEN 0
  ELSE IF ~isPortAvailable(commonPorts[i]) THEN commonPorts[i]
  ELSE scanGatewaysAnyHolder(i + 1)

RECURSIVE scanGateways(_)
scanGateways(i) ==
  IF i > Len(commonPorts) THEN 0
  ELSE IF ~isPortAvailable(commonPorts[i]) /\ isGatewayProcess(commonPorts[i])
       THEN commonPorts[i]
  ELSE scanGateways(i + 1)

(* 0 stands for null *)
findExistingGateway == scanGateways(1)

checkGatewayHealth == GatewayOn(currentPort)

isGatewayReady == isReady /\ gatewayProcess # 0

spawnCount == Cardinality({p \in Procs : procs[p].st # "none"})

Init ==
  /\ isStarting = FALSE
  /\ isReady = FALSE
  /\ gatewayProcess = 0
  /\ currentPort = defaultPort
  /\ backgroundStartupPromise = "none"
  /\ pc = [c \in Callers |-> "idle"]
  /\ seq = [o \in Owners |-> NoSeq]
  /\ awaiters = <<>>
  /\ mq = <<>>
  /\ \E h \in HostScenarios :
       /\ installed = h.installed
       /\ runtimePresent = h.runtime
       /\ occupied = h.occupied
  /\ extGateway = 0
  /\ procs = [p \in Procs |-> NoProc]
  /\ overlays = {}
  /\ externalEndpoint = NoEndpoint
  /\ remoteAlive = FALSE
  /\ probes = [c \in Callers |-> 0]
  /\ NoShutdown
  /\ flagsReset = FALSE
  /\ fellThrough = FALSE
  /\ unhandled = FALSE

(* ======================================================================= *)
(* startGatewayInternal: the startup sequence                              *)
(* ======================================================================= *)

(* startGatewayInternal without its isStarting/isReady guard *)
startGatewayInternalUnguarded(o) ==
  /\ isStarting' = TRUE
  /\ seq' = [seq EXCEPT ![o] = [st |-> "checkInstall", attempts |-> 0, ovl |-> 0]]

(* entry guard and first statement: runs synchronously in the caller's task *)
startGatewayInternal(o) ==
  IF isStarting \/ isReady
  THEN /\ isStarting' = isStarting
       /\ seq' = seq
  ELSE /\ isStarting' = TRUE
       /\ seq' = [seq EXCEPT ![o] = [st |-> "checkInstall", attempts |-> 0, ovl |-> 0]]

(* whether the call of startGatewayInternal by o passed the guard *)
started(o) == seq[o].st = "none" /\ seq'[o].st # "none"

(* the .catch() attached to the background promise in startGatewayAsync *)
backgroundCatchAttached == TRUE

(* the background wrapper without "this.backgroundStartupPromise = null" *)
settleKeepsHandle(o, ok) ==
  IF o = BgOwner
  THEN /\ backgroundStartupPromise' = IF ok THEN "fulfilled" ELSE "pending"
       /\ mq' = [i \in 1..Len(awaiters) |-> [c |-> awaiters[i], ok |-> ok]]
       /\ awaiters' = <<>>
       /\ unhandled' = (unhandled \/ (~ok /\ ~backgroundCatchAttached /\ awaiters = <<>>))
       /\ UNCHANGED <<pc>>
  ELSE /\ pc' = [pc EXCEPT ![o] = IF ok THEN "done" ELSE "rejected"]
       /\ UNCHANGED <<backgroundStartupPromise, mq, awaiters, unhandled>>

(* the promise of startGatewayInternal settles: the awaiting code resumes.  *)
(* A synchronous caller resumes in the same task (ensureGatewayReady        *)
(* returns or rethrows); the background wrapper settles the stored promise  *)
(* and its awaiters become microtasks.                                      *)
settle(o, ok) ==
  IF o = BgOwner
  THEN /\ backgroundStartupPromise' = IF ok THEN "fulfilled" ELSE "none"
       /\ mq' = [i \in 1..Len(awaiters) |-> [c |-> awaiters[i], ok |-> ok]]
       /\ awaiters' = <<>>
       /\ unhandled' = (unhandled \/ (~ok /\ ~backgroundCatchAttached /\ awaiters = <<>>))
       /\ UNCHANGED <<pc>>
  ELSE /\ pc' = [pc EXCEPT ![o] = IF ok THEN "done" ELSE "rejected"]
       /\ UNCHANGED <<backgroundStartupPromise, mq, awaiters, unhandled>>

keepSettle == UNCHANGED <<pc, backgroundStartupPromise, awaiters, mq,
                          unhandled>>
keepFlags == UNCHANGED <<isStarting, isReady, flagsReset>>
keepProc == UNCHANGED <<gatewayProcess, procs>>
keepCalls == UNCHANGED <<auxVars, externalEndpoint, remoteAlive, probes, installed, runtimePresent, occupied, extGateway, fellThrough>>

(* a catch block that rethrows without resetting isReady *)
failStartupKeepsReady(o) ==
  /\ isStarting' = FALSE
  /\ isReady' = isReady
  /\ flagsReset' = TRUE
  /\ seq' = [seq EXCEPT ![o] = NoSeq]
  /\ settle(o, FALSE)

(* catch block of startGatewayInternal *)
failStartup(o) ==
  /\ isStarting' = FALSE
  /\ isReady' = FALSE
  /\ flagsReset' = TRUE
  /\ seq' = [seq EXCEPT ![o] = NoSeq]
  /\ settle(o, FALSE)

(* statements after a successful waitForGateway *)
finishStartup(o) ==
  /\ isStarting' = FALSE
  /\ isReady' = TRUE
  /\ flagsReset' = flagsReset
  /\ seq' = [seq EXCEPT ![o] = NoSeq]
  /\ settle(o, TRUE)

(* a launch that marks the manager ready as soon as the process is spawned *)
launchMarksReady(o) ==
  IF ~runtimePresent
  THEN failStartup(o) /\ keepProc
  ELSE /\ spawnCount < MaxSpawns
       /\ procs' = [procs EXCEPT ![spawnCount + 1] =
                      [st |-> "starting", port |-> currentPort',
                       conf |-> IF currentPort' = defaultPort THEN 0 ELSE currentPort',
                       printed |-> FALSE]]
       /\ gatewayProcess' = spawnCount + 1
       /\ seq' = [seq EXCEPT ![o] = [st |-> "waiting", attempts |-> 0, ovl |-> 0]]
       /\ isReady' = TRUE
       /\ UNCHANGED <<isStarting, flagsReset>>
       /\ keepSettle

(* getJavaPath, spawn, handler registration, first call of waitForGateway;  *)
(* reads the port the enclosing step has just stored                        *)
launch(o) ==
  IF ~runtimePresent
  THEN failStartup(o) /\ keepProc
  ELSE /\ spawnCount < MaxSpawns
       /\ procs' = [procs EXCEPT ![spawnCount + 1] =
                      [st |-> "starting", port |-> currentPort',
                       conf |-> IF currentPort' = defaultPort THEN 0 ELSE currentPort',
                       printed |-> FALSE]]
       /\ gatewayProcess' = spawnCount + 1
       /\ seq' = [seq EXCEPT ![o] = [st |-> "waiting", attempts |-> 0, ovl |-> 0]]
       /\ keepFlags
       /\ keepSettle

(* ensureGatewayExists completes *)
InstallChecked(o) ==
  /\ mq = <<>>
  /\ seq[o].st = "checkInstall"
  /\ IF installed
     THEN /\ seq' = [seq EXCEPT ![o].st = "checkPort"]
          /\ keepFlags /\ keepSettle
     ELSE failStartup(o)
  /\ UNCHANGED <<currentPort, gatewayProcess, procs, overlays>>
  /\ keepCalls

(* isPortAvailable(defaultPort) completes *)
PortChecked(o) ==
  /\ mq = <<>>
  /\ seq[o].st = "checkPort"
  /\ IF isPortAvailable(defaultPort)
     THEN /\ currentPort' = defaultPort
          /\ launch(o)
     ELSE /\ seq' = [seq EXCEPT ![o].st = "findPort"]
          /\ UNCHANGED currentPort
          /\ keepFlags /\ keepSettle /\ keepProc
  /\ UNCHANGED overlays
  /\ keepCalls

(* a port search whose failure is not caught: the startup fails *)
AltPortFoundOrFail(o) ==
  /\ mq = <<>>
  /\ seq[o].st = "findPort"
  /\ LET p == findAvailablePort(altStartPort, altMaxAttempts) IN
     IF p # 0
     THEN /\ currentPort' = p
          /\ seq' = [seq EXCEPT ![o] = [st |-> "writeConfig", attempts |-> 0, ovl |-> p]]
          /\ keepFlags /\ keepSettle /\ keepProc
     ELSE /\ UNCHANGED currentPort
          /\ failStartup(o) /\ keepProc
  /\ UNCHANGED overlays
  /\ keepCalls

(* findAvailablePort(5001, 9) completes *)
AltPortFound(o) ==
  /\ mq = <<>>
  /\ seq[o].st = "findPort"
  /\ LET p == findAvailablePort(altStartPort, altMaxAttempts) IN
     IF p # 0
     THEN /\ currentPort' = p
          /\ seq' = [seq EXCEPT ![o] = [st |-> "writeConfig", attempts |-> 0, ovl |-> p]]
          /\ keepFlags /\ keepSettle /\ keepProc
     ELSE /\ currentPort' = defaultPort
          /\ launch(o)
  /\ UNCHANGED overlays
  /\ keepCalls

(* createTempConfigWithPort completes, or throws and is caught *)
ConfigWritten(o) ==
  /\ mq = <<>>
  /\ seq[o].st = "writeConfig"
  /\ \E written \in BOOLEAN :
       IF written
       THEN /\ overlays' = overlays \cup {seq[o].ovl}
            /\ currentPort' = currentPort
            /\ launch(o)
       ELSE /\ overlays' = overlays
            /\ currentPort' = defaultPort
            /\ launch(o)
  /\ keepCalls

(* one round of waitForGateway: a health probe answers, then the 1 s sleep *)
HealthProbed(o) ==
  /\ mq = <<>>
  /\ seq[o].st = "waiting"
  /\ IF checkGatewayHealth
     THEN finishStartup(o)
     ELSE IF seq[o].attempts + 1 >= MaxAttempts
          THEN failStartup(o)
          ELSE /\ seq' = [seq EXCEPT ![o].attempts = @ + 1]
               /\ keepFlags /\ keepSettle
  /\ UNCHANGED <<currentPort, gatewayProcess, procs, overlays>>
  /\ keepCalls

(* ======================================================================= *)
(* public operations                                                       *)
(* ======================================================================= *)

(* startGatewayAsync without the check of the stored handle *)
startGatewayAsyncUnguarded ==
  /\ startGatewayInternal(BgOwner)
  /\ backgroundStartupPromise' = IF started(BgOwner) THEN "pending" ELSE "fulfilled"

startGatewayAsync ==
  IF backgroundStartupPromise # "none"
  THEN UNCHANGED <<backgroundStartupPromise, isStarting, seq>>
  ELSE /\ startGatewayInternal(BgOwner)
       /\ backgroundStartupPromise' = IF started(BgOwner) THEN "pending" ELSE "fulfilled"

(* "start synchronously" tail of ensureGatewayReady *)
syncStart(c) ==
  /\ startGatewayInternal(c)
  /\ pc' = [pc EXCEPT ![c] = IF started(c) THEN "awaitSeq" ELSE "done"]

(* the await of the background promise without its try/catch *)
awaitBackgroundStartupPropagates(c, ok) ==
  IF ok /\ isReady
  THEN /\ pc' = [pc EXCEPT ![c] = "done"]
       /\ UNCHANGED <<isStarting, seq>>
  ELSE IF ok
  THEN syncStart(c)
  ELSE /\ pc' = [pc EXCEPT ![c] = "rejected"]
       /\ UNCHANGED <<isStarting, seq>>

(* ensureGatewayReady resumes after awaiting the background promise *)
awaitBackgroundStartup(c, ok) ==
  IF ok /\ isReady
  THEN /\ pc' = [pc EXCEPT ![c] = "done"]
       /\ UNCHANGED <<isStarting, seq>>
  ELSE /\ syncStart(c)

(* an existing gateway was found: adopt its port and return *)
adopt(c, port, final) ==
  /\ currentPort' = port
  /\ isReady' = TRUE
  /\ pc' = [pc EXCEPT ![c] = final]

(* ensureGatewayReady that ignores the result of its discovery *)
ensureGatewayReadyNoAdoption(c) ==
  /\ UNCHANGED <<currentPort, isReady>>
  /\ IF backgroundStartupPromise = "pending"
     THEN /\ pc' = [pc EXCEPT ![c] = "awaitBg"]
          /\ awaiters' = Append(awaiters, c)
          /\ UNCHANGED <<isStarting, seq>>
     ELSE IF backgroundStartupPromise = "fulfilled"
     THEN /\ awaitBackgroundStartup(c, TRUE)
          /\ UNCHANGED awaiters
     ELSE /\ syncStart(c)
          /\ UNCHANGED <<awaiters>>

(* ensureGatewayReady from the completion of findExistingGateway on *)
ensureGatewayReady(c) ==
  LET existingPort == findExistingGateway IN
  IF existingPort # 0
  THEN /\ adopt(c, existingPort, "done")
       /\ UNCHANGED <<isStarting, seq, awaiters>>
  ELSE /\ UNCHANGED <<currentPort, isReady>>
       /\ IF backgroundStartupPromise = "pending"
          THEN /\ pc' = [pc EXCEPT ![c] = "awaitBg"]
               /\ awaiters' = Append(awaiters, c)
               /\ UNCHANGED <<isStarting, seq>>
          ELSE IF backgroundStartupPromise = "fulfilled"
          THEN /\ awaitBackgroundStartup(c, TRUE)
               /\ UNCHANGED awaiters
          ELSE /\ syncStart(c)
               /\ UNCHANGED <<awaiters>>

(* quickStartGateway awaiting the startup sequence instead of detaching it *)
quickStartGatewayAwaits(c) ==
  LET existingPort == findExistingGateway IN
  IF existingPort # 0
  THEN /\ adopt(c, existingPort, "quickDone")
       /\ UNCHANGED <<isStarting, seq, backgroundStartupPromise>>
  ELSE /\ syncStart(c)
       /\ UNCHANGED <<currentPort, isReady, backgroundStartupPromise>>

(* quickStartGateway from the completion of quickCheckExistingGateway on *)
quickStartGateway(c) ==
  LET existingPort == findExistingGateway IN
  IF existingPort # 0
  THEN /\ adopt(c, existingPort, "quickDone")
       /\ UNCHANGED <<isStarting, seq, backgroundStartupPromise>>
  ELSE /\ startGatewayAsync
       /\ pc' = [pc EXCEPT ![c] = "quickDone"]
       /\ UNCHANGED <<currentPort, isReady>>

(* a stopGateway that terminates the process it started *)
stopGatewayKills ==
  /\ gatewayProcess' = 0
  /\ isReady' = FALSE
  /\ isStarting' = FALSE
  /\ procs' = [p \in Procs |-> IF p = gatewayProcess
                                THEN [procs[p] EXCEPT !.st = "exited", !.printed = FALSE]
                                ELSE procs[p]]
  /\ UNCHANGED currentPort

stopGateway ==
  /\ gatewayProcess' = 0
  /\ isReady' = FALSE
  /\ isStarting' = FALSE
  /\ UNCHANGED <<currentPort, procs>>

(* call slots are numbered in the order of the calls *)
nextCall(c) == pc[c] = "idle" /\ (IF c = 1 THEN TRUE ELSE pc[c - 1] # "idle")

keepHost == UNCHANGED <<auxVars, externalEndpoint, remoteAlive, probes, installed, runtimePresent, occupied, extGateway, procs, overlays>>

CallEnsure(c) ==
  /\ mq = <<>>
  /\ nextCall(c)
  /\ IF isReady
     THEN /\ pc' = [pc EXCEPT ![c] = "done"]
     ELSE /\ pc' = [pc EXCEPT ![c] = "discover"]
  /\ UNCHANGED <<mgrVars, seq, awaiters, mq>>
  /\ keepHost
  /\ UNCHANGED <<flagsReset, fellThrough, unhandled>>

DiscoverDone(c) ==
  /\ mq = <<>>
  /\ pc[c] = "discover"
  /\ ensureGatewayReady(c)
  /\ UNCHANGED <<gatewayProcess, backgroundStartupPromise, mq>>
  /\ keepHost
  /\ UNCHANGED <<flagsReset, fellThrough, unhandled>>

CallQuickStart(c) ==
  /\ mq = <<>>
  /\ nextCall(c)
  /\ pc' = [pc EXCEPT ![c] = "qdiscover"]
  /\ UNCHANGED <<mgrVars, seq, awaiters, mq>>
  /\ keepHost
  /\ UNCHANGED histVars

QuickDiscoverDone(c) ==
  /\ mq = <<>>
  /\ pc[c] = "qdiscover"
  /\ quickStartGateway(c)
  /\ UNCHANGED <<gatewayProcess, awaiters, mq>>
  /\ keepHost
  /\ UNCHANGED <<flagsReset, fellThrough, unhandled>>

(* a call of stopGateway: no await, runs to completion in its task *)
CallStopGateway(c) ==
  /\ mq = <<>>
  /\ nextCall(c)
  /\ pc' = [pc EXCEPT ![c] = "stopDone"]
  /\ stopGateway
  /\ flagsReset' = TRUE
  /\ UNCHANGED <<backgroundStartupPromise, seq, awaiters, mq>>
  /\ UNCHANGED <<auxVars, externalEndpoint, remoteAlive, probes, installed, runtimePresent, occupied, extGateway, overlays>>
  /\ UNCHANGED <<fellThrough, unhandled>>

(* microtask: the first queued awaiter of the settled background promise *)
AwaiterResume ==
  /\ mq # <<>>
  /\ awaitBackgroundStartup(Head(mq).c, Head(mq).ok)
  /\ mq' = Tail(mq)
  /\ UNCHANGED <<isReady, gatewayProcess, currentPort, backgroundStartupPromise, awaiters>>
  /\ keepHost
  /\ fellThrough' = (fellThrough \/ ~Head(mq).ok)
  /\ UNCHANGED <<flagsReset, unhandled>>

(* ======================================================================= *)
(* events of the spawned process and of the host                           *)
(* ======================================================================= *)

Alive(p) == procs[p].st \in {"starting", "listening"}

(* stdout 'data' handler with a line that matches a readiness indicator *)
stdoutReadyHandler ==
  /\ isReady' = TRUE
  /\ UNCHANGED <<isStarting, gatewayProcess>>

ProcStdoutReady(p) ==
  /\ mq = <<>>
  /\ Alive(p)
  /\ ~procs[p].printed
  /\ procs' = [procs EXCEPT ![p].printed = TRUE]
  /\ stdoutReadyHandler
  /\ UNCHANGED <<currentPort, backgroundStartupPromise, coVars>>
  /\ UNCHANGED <<auxVars, externalEndpoint, remoteAlive, probes, installed, runtimePresent, occupied, extGateway, overlays>>
  /\ UNCHANGED <<flagsReset, fellThrough, unhandled>>

(* the spawned gateway binds its port *)
ProcListen(p) ==
  /\ mq = <<>>
  /\ procs[p].st = "starting"
  /\ isPortAvailable(procs[p].port)
  /\ procs' = [procs EXCEPT ![p].st = "listening"]
  /\ UNCHANGED <<mgrVars, coVars>>
  /\ UNCHANGED <<auxVars, externalEndpoint, remoteAlive, probes, installed, runtimePresent, occupied, extGateway, overlays>>
  /\ UNCHANGED histVars

(* an 'exit' handler that drops the handle and leaves the flags *)
exitHandlerKeepsFlags ==
  /\ gatewayProcess' = 0
  /\ isStarting' = isStarting
  /\ isReady' = isReady

(* 'exit' handler *)
exitHandler ==
  /\ gatewayProcess' = 0
  /\ isStarting' = FALSE
  /\ isReady' = FALSE

ProcExit(p) ==
  /\ mq = <<>>
  /\ Alive(p)
  /\ procs' = [procs EXCEPT ![p].st = "exited", ![p].printed = FALSE]
  /\ exitHandler
  /\ flagsReset' = TRUE
  /\ UNCHANGED <<currentPort, backgroundStartupPromise, coVars>>
  /\ UNCHANGED <<auxVars, externalEndpoint, remoteAlive, probes, installed, runtimePresent, occupied, extGateway, overlays>>
  /\ UNCHANGED <<fellThrough, unhandled>>

(* 'error' handler *)
errorHandler ==
  /\ isStarting' = FALSE
  /\ isReady' = FALSE
  /\ UNCHANGED gatewayProcess

(* the child could not be spawned: 'error' is emitted instead of output *)
ProcError(p) ==
  /\ mq = <<>>
  /\ procs[p].st = "starting"
  /\ ~procs[p].printed
  /\ procs' = [procs EXCEPT ![p].st = "exited"]
  /\ errorHandler
  /\ flagsReset' = TRUE
  /\ UNCHANGED <<currentPort, backgroundStartupPromise, coVars>>
  /\ UNCHANGED <<auxVars, externalEndpoint, remoteAlive, probes, installed, runtimePresent, occupied, extGateway, overlays>>
  /\ UNCHANGED <<fellThrough, unhandled>>

(* a gateway started by another host process comes up *)
ExternalGatewayAppears(port) ==
  /\ mq = <<>>
  /\ extGateway = 0
  /\ isPortAvailable(port)
  /\ extGateway' = port
  /\ UNCHANGED <<mgrVars, coVars>>
  /\ UNCHANGED <<auxVars, externalEndpoint, remoteAlive, probes, installed, runtimePresent, occupied, procs, overlays>>
  /\ UNCHANGED histVars

Next ==
  \/ \E c \in Callers : CallEnsure(c)
  \/ \E c \in Callers : DiscoverDone(c)
  \/ \E c \in Callers : CallQuickStart(c)
  \/ \E c \in Callers : QuickDiscoverDone(c)
  \/ \E c \in Callers : CallStopGateway(c)
  \/ AwaiterResume
  \/ \E o \in Owners : InstallChecked(o)
  \/ \E o \in Owners : PortChecked(o)
  \/ \E o \in Owners : AltPortFound(o)
  \/ \E o \in Owners : ConfigWritten(o)
  \/ \E o \in Owners : HealthProbed(o)
  \/ \E p \in Procs : ProcStdoutReady(p)
  \/ \E p \in Procs : ProcListen(p)
  \/ \E p \in Procs : ProcExit(p)
  \/ \E p \in Procs : ProcError(p)
  \/ \E port \in ExternalPorts : ExternalGatewayAppears(port)

Spec == Init /\ [][Next]_vars

(* ======================================================================= *)
(* the port probes on their own: a fresh manager on a host whose ports are *)
(* held in any pattern, driven by ensureGatewayReady up to the launch      *)
(* ======================================================================= *)

ScanPorts == defaultPort..(defaultPort + ScanWidth)

(* ports held by processes that do not look like a gateway: any subset of  *)
(* the scanned ports, with the remaining ports all free or all held        *)
ProbeHosts == {low \cup high : low \in SUBSET ScanPorts, high \in {{}, Ports \ ScanPorts}}

ProbeInit ==
  /\ isStarting = FALSE
  /\ isReady = FALSE
  /\ gatewayProcess = 0
  /\ currentPort = defaultPort
  /\ backgroundStartupPromise = "none"
  /\ pc = [c \in Callers |-> "idle"]
  /\ seq = [o \in Owners |-> NoSeq]
  /\ awaiters = <<>>
  /\ mq = <<>>
  /\ installed = TRUE
  /\ runtimePresent = TRUE
  /\ occupied \in ProbeHosts
  /\ extGateway \in {0} \cup (ScanPorts \ occupied)
  /\ procs = [p \in Procs |-> NoProc]
  /\ overlays = {}
  /\ externalEndpoint = NoEndpoint
  /\ remoteAlive = FALSE
  /\ probes = [c \in Callers |-> 0]
  /\ NoShutdown
  /\ flagsReset = FALSE
  /\ fellThrough = FALSE
  /\ unhandled = FALSE

ProbeNext ==
  \/ \E c \in Callers : CallEnsure(c)
  \/ \E c \in Callers : DiscoverDone(c)
  \/ \E o \in Owners : InstallChecked(o)
  \/ \E o \in Owners : PortChecked(o)
  \/ \E o \in Owners : AltPortFound(o)
  \/ \E o \in Owners : ConfigWritten(o)
  \/ \E p \in Procs : ProcListen(p)
  \/ \E port \in ScanPorts : ExternalGatewayAppears(port)

ProbeSpec == ProbeInit /\ [][ProbeNext]_vars

(* ======================================================================= *)
(* external mode: the manager is configured with the endpoint of a gateway *)
(* that someone else runs, and only probes it                              *)
(* ======================================================================= *)

externalMode == externalEndpoint # NoEndpoint

(* the one health probe against the configured host:port *)
endpointAlive ==
  IF externalEndpoint.host = "localhost"
  THEN GatewayOn(externalEndpoint.port)
  ELSE remoteAlive

getCurrentPort == currentPort

getGatewayUrl ==
  [host |-> IF externalMode THEN externalEndpoint.host ELSE "localhost",
   port |-> currentPort]

(* in external mode no process of the manager's own is expected *)
isGatewayReadyInMode == isReady /\ (externalMode \/ gatewayProcess # 0)

setExternalMode(host, port) ==
  /\ externalEndpoint' = [host |-> host, port |-> port]
  /\ currentPort' = port

(* the mode is chosen on a fresh manager, before its first use *)
SetExternalMode(host, port) ==
  /\ mq = <<>>
  /\ ~externalMode
  /\ \A c \in Callers : pc[c] = "idle"
  /\ setExternalMode(host, port)
  /\ UNCHANGED <<isStarting, isReady, gatewayProcess, backgroundStartupPromise, coVars>>
  /\ UNCHANGED <<hostVars, auxVars, remoteAlive, probes, histVars>>

(* a quickStartGateway that probes the endpoint and also runs the local    *)
(* discovery                                                               *)
CallQuickStartProbeAndDiscover(c) ==
  IF externalMode
  THEN /\ mq = <<>>
       /\ nextCall(c)
       /\ pc' = [pc EXCEPT ![c] = "qdiscover"]
       /\ probes' = [probes EXCEPT ![c] = @ + 1]
       /\ UNCHANGED <<mgrVars, seq, awaiters, mq>>
       /\ UNCHANGED <<hostVars, auxVars, externalEndpoint, remoteAlive, histVars>>
  ELSE CallQuickStart(c)

(* quickStartGateway called: in external mode it issues the probe and      *)
(* nothing else, otherwise it takes the local path                         *)
CallQuickStartInMode(c) ==
  IF externalMode
  THEN /\ mq = <<>>
       /\ nextCall(c)
       /\ pc' = [pc EXCEPT ![c] = "extProbe"]
       /\ probes' = [probes EXCEPT ![c] = @ + 1]
       /\ UNCHANGED <<mgrVars, seq, awaiters, mq>>
       /\ UNCHANGED <<hostVars, auxVars, externalEndpoint, remoteAlive, histVars>>
  ELSE CallQuickStart(c)

(* a probe whose failure falls back to the local discovery *)
ExternalProbeDoneWithFallback(c) ==
  /\ mq = <<>>
  /\ pc[c] = "extProbe"
  /\ IF endpointAlive
     THEN /\ isReady' = TRUE
          /\ pc' = [pc EXCEPT ![c] = "quickDone"]
     ELSE /\ isReady' = isReady
          /\ pc' = [pc EXCEPT ![c] = "qdiscover"]
  /\ UNCHANGED <<isStarting, gatewayProcess, currentPort, backgroundStartupPromise>>
  /\ UNCHANGED <<seq, awaiters, mq, hostVars, auxVars, modeVars, histVars>>

(* the probe answers: ready, or the call is rejected with 'External        *)
(* gateway not reachable at host:port' (pc "unreachable")                  *)
ExternalProbeDone(c) ==
  /\ mq = <<>>
  /\ pc[c] = "extProbe"
  /\ IF endpointAlive
     THEN /\ isReady' = TRUE
          /\ pc' = [pc EXCEPT ![c] = "quickDone"]
     ELSE /\ isReady' = isReady
          /\ pc' = [pc EXCEPT ![c] = "unreachable"]
  /\ UNCHANGED <<isStarting, gatewayProcess, currentPort, backgroundStartupPromise>>
  /\ UNCHANGED <<seq, awaiters, mq, hostVars, auxVars, modeVars, histVars>>

(* the gateway on the remote host comes up *)
RemoteGatewayAppears ==
  /\ mq = <<>>
  /\ ~remoteAlive
  /\ remoteAlive' = TRUE
  /\ UNCHANGED <<mgrVars, coVars, hostVars, auxVars, externalEndpoint, probes, histVars>>

ExternalNext ==
  \/ \E host \in ExternalHosts : \E port \in EndpointPorts : SetExternalMode(host, port)
  \/ \E c \in Callers : CallQuickStartInMode(c)
  \/ \E c \in Callers : ExternalProbeDone(c)
  \/ RemoteGatewayAppears
  \/ \E port \in EndpointPorts \cup ExternalPorts : ExternalGatewayAppears(port)
  \/ \E c \in Callers : QuickDiscoverDone(c)
  \/ \E o \in Owners : InstallChecked(o)
  \/ \E o \in Owners : PortChecked(o)
  \/ \E o \in Owners : AltPortFound(o)
  \/ \E o \in Owners : ConfigWritten(o)
  \/ \E o \in Owners : HealthProbed(o)
  \/ \E p \in Procs : ProcListen(p)

ExternalSpec == Init /\ [][ExternalNext]_vars

(* ======================================================================= *)
(* shutdown: the handlers registered by registerCleanupHandlers, and those *)
(* of the entry point index.ts                                             *)
(* ======================================================================= *)

(* what readdir of the configuration directory returns *)
Listing == dir \cup {tempConfigName(p) : p \in overlays}

(* fs.unlink of a file that exists *)
unlink(name) ==
  /\ dir' = dir \ {name}
  /\ overlays' = {p \in overlays : tempConfigName(p) # name}

HostRunning == nodeProcess = "running"

(* the references are dropped, the subprocess is left alone *)
clearReferences ==
  /\ gatewayProcess' = 0
  /\ isReady' = FALSE
  /\ isStarting' = FALSE

(* process.exit(code): the 'exit' handler drops the references and the host *)
(* process ends; nodeProcess records the event whose handler ended it              *)
processExit(sig) ==
  /\ nodeProcess' = sig
  /\ clearReferences

exitCode(sig) == IF sig \in {"uncaughtException", "unhandledRejection"} THEN 1 ELSE 0

(* the end of cleanup(): references dropped, then the handler calls         *)
(* process.exit                                                             *)
finishCleanup(i, cl) ==
  /\ cleanups' = [cl EXCEPT ![i].st = "done"]
  /\ processExit(cl[i].sig)

keepManager == UNCHANGED <<currentPort, backgroundStartupPromise, coVars, modeVars, histVars, toolVars, libVars, appVars,
                           installed, runtimePresent, occupied, extGateway, procs, shutdownHooks>>

(* a signal or process event arrives.  The listeners run in the order they  *)
(* were registered: the entry point's (if installed) first, it calls        *)
(* stopGateway() and exits the process once that promise has resolved, in a *)
(* microtask; then the manager's, whose cleanup() issues readdir and waits  *)
(* for its completion, which is a later task of the event loop.             *)
Signal(sig) ==
  /\ mq = <<>>
  /\ HostRunning
  /\ \E i \in 1..MaxCleanups :
       /\ cleanups[i].st = "none"
       /\ \A j \in 1..(i - 1) : cleanups[j].st # "none"
       /\ cleanups' = [cleanups EXCEPT ![i] = [NoCleanup EXCEPT !.sig = sig, !.st = "readdir"]]
  /\ IF shutdownHooks /\ sig \in entryHandled
     THEN processExit(sig)
     ELSE UNCHANGED <<nodeProcess, gatewayProcess, isReady, isStarting>>
  /\ UNCHANGED <<dir, overlays>>
  /\ keepManager

(* readdir completes: the overlays found are deleted one by one; a failure  *)
(* of readdir is logged and ends the cleanup                                *)
ReaddirDone(i) ==
  /\ mq = <<>>
  /\ HostRunning
  /\ cleanups[i].st = "readdir"
  /\ \E ok \in BOOLEAN :
       LET todo == IF ok THEN {n \in Listing : isTempConfig(n)} ELSE {}
       IN IF todo = {}
          THEN finishCleanup(i, cleanups)
          ELSE /\ cleanups' = [cleanups EXCEPT ![i].st = "unlink", ![i].todo = todo]
               /\ UNCHANGED <<nodeProcess, gatewayProcess, isReady, isStarting>>
  /\ UNCHANGED <<dir, overlays>>
  /\ keepManager

(* one unlink completes.  A file that is gone by now makes unlink throw,    *)
(* which ends the loop: the error is logged and the cleanup ends            *)
UnlinkDone(i) ==
  /\ mq = <<>>
  /\ HostRunning
  /\ cleanups[i].st = "unlink"
  /\ \E n \in cleanups[i].todo :
       IF n \in Listing
       THEN /\ unlink(n)
            /\ LET cl == [cleanups EXCEPT ![i].todo = @ \ {n}, ![i].removed = @ \cup {n}]
               IN IF cl[i].todo = {}
                  THEN finishCleanup(i, cl)
                  ELSE /\ cleanups' = cl
                       /\ UNCHANGED <<nodeProcess, gatewayProcess, isReady, isStarting>>
       ELSE /\ UNCHANGED <<dir, overlays>>
            /\ finishCleanup(i, cleanups)
  /\ keepManager

(* another manager instance that uses the same installation writes its     *)
(* overlay                                                                 *)
ForeignOverlayWritten(port) ==
  /\ mq = <<>>
  /\ tempConfigName(port) \notin Listing
  /\ dir' = dir \cup {tempConfigName(port)}
  /\ UNCHANGED <<mgrVars, coVars, hostVars, modeVars, nodeProcess, cleanups, shutdownHooks, toolVars, libVars, appVars, histVars>>

(* the call of ensureGatewayReady that is under way when the events arrive *)
ShutdownCallers == {1}

CleanupInit ==
  /\ isStarting = FALSE
  /\ isReady = FALSE
  /\ gatewayProcess = 0
  /\ currentPort = defaultPort
  /\ backgroundStartupPromise = "none"
  /\ pc = [c \in Callers |-> "idle"]
  /\ seq = [o \in Owners |-> NoSeq]
  /\ awaiters = <<>>
  /\ mq = <<>>
  /\ installed = TRUE
  /\ runtimePresent = TRUE
  /\ occupied \in {{}, {defaultPort}}
  /\ extGateway = 0
  /\ procs = [p \in Procs |-> NoProc]
  /\ overlays = {}
  /\ externalEndpoint = NoEndpoint
  /\ remoteAlive = FALSE
  /\ probes = [c \in Callers |-> 0]
  /\ dir \in {{originalConfigName} \cup stray : stray \in SUBSET StrayFiles}
  /\ nodeProcess = "running"
  /\ cleanups = [i \in 1..MaxCleanups |-> NoCleanup]
  /\ shutdownHooks \in BOOLEAN
  /\ clientPort = defaultPort
  /\ tool = [c \in Callers |-> "none"]
  /\ servers = <<>>
  /\ flex = NoQuery
  /\ ibClient = NewClient
  /\ probeCount = 0
  /\ session = NewSession
  /\ storage = NewStorage
  /\ order = NoOrder
  /\ flagsReset = FALSE
  /\ fellThrough = FALSE
  /\ unhandled = FALSE

CleanupNext ==
  \/ HostRunning /\ \E c \in ShutdownCallers : CallEnsure(c)
  \/ HostRunning /\ \E c \in ShutdownCallers : DiscoverDone(c)
  \/ HostRunning /\ \E o \in Owners : InstallChecked(o)
  \/ HostRunning /\ \E o \in Owners : PortChecked(o)
  \/ HostRunning /\ \E o \in Owners : AltPortFound(o)
  \/ HostRunning /\ \E o \in Owners : ConfigWritten(o)
  \/ \E sig \in Signals : Signal(sig)
  \/ \E i \in 1..MaxCleanups : ReaddirDone(i)
  \/ \E i \in 1..MaxCleanups : UnlinkDone(i)
  \/ \E port \in ForeignPorts : ForeignOverlayWritten(port)

CleanupSpec == CleanupInit /\ [][CleanupNext]_vars

(* ======================================================================= *)
(* the server: initializeGateway and the tool handlers, callers of the     *)
(* manager that share one IBClient                                         *)
(* ======================================================================= *)

(* initializeGateway makes the first call of the manager; every later call *)
(* is made by a tool handler                                               *)
InitCaller == 1
Handlers == Callers \ {InitCaller}

(* IBClient.updatePort *)
updatePort(newPort) == clientPort' = newPort

(* a caller whose call of the manager has settled and whose continuation,  *)
(* a microtask, has not run yet                                            *)
pendingContinuation(c) ==
  /\ tool[c] = "none"
  /\ pc[c] \in {"quickDone", "done", "rejected"}

(* tasks of the event loop run only once the microtasks have run *)
NoContinuation == \A c \in Callers : ~pendingContinuation(c)

keepServer == UNCHANGED <<mgrVars, coVars, hostVars, modeVars, shutVars, libVars, appVars, histVars>>

(* initializeGateway after quickStartGateway has returned: the client gets *)
(* the manager's port                                                      *)
InitializeDone ==
  /\ pc[InitCaller] = "quickDone"
  /\ tool[InitCaller] = "none"
  /\ updatePort(getCurrentPort)
  /\ tool' = [tool EXCEPT ![InitCaller] = "initialized"]
  /\ keepServer

(* a handler that issues its request whether or not the manager's call has *)
(* resolved                                                                *)
ApiCallEager(c) ==
  /\ c \in Handlers
  /\ tool[c] = "none"
  /\ pc[c] \in {"discover", "awaitBg", "awaitSeq", "done"}
  /\ tool' = [tool EXCEPT ![c] = "called"]
  /\ UNCHANGED clientPort
  /\ keepServer

(* a tool handler after ensureGatewayReady() has resolved: the request is  *)
(* issued through the IBClient                                             *)
ApiCall(c) ==
  /\ c \in Handlers
  /\ tool[c] = "none"
  /\ pc[c] = "done"
  /\ tool' = [tool EXCEPT ![c] = "called"]
  /\ UNCHANGED clientPort
  /\ keepServer

(* a tool handler after ensureGatewayReady() has rejected: the catch block *)
(* returns the formatted error as text content                             *)
HandlerError(c) ==
  /\ c \in Handlers
  /\ tool[c] = "none"
  /\ pc[c] = "rejected"
  /\ tool' = [tool EXCEPT ![c] = "errorText"]
  /\ UNCHANGED clientPort
  /\ keepServer

ToolNext ==
  \/ NoContinuation /\ CallQuickStart(InitCaller)
  \/ NoContinuation /\ QuickDiscoverDone(InitCaller)
  \/ InitializeDone
  \/ NoContinuation /\ \E c \in Handlers : CallEnsure(c)
  \/ NoContinuation /\ \E c \in Handlers : DiscoverDone(c)
  \/ \E c \in Handlers : ApiCall(c)
  \/ \E c \in Handlers : HandlerError(c)
  \/ NoContinuation /\ AwaiterResume
  \/ NoContinuation /\ \E o \in Owners : InstallChecked(o)
  \/ NoContinuation /\ \E o \in Owners : PortChecked(o)
  \/ NoContinuation /\ \E o \in Owners : AltPortFound(o)
  \/ NoContinuation /\ \E o \in Owners : ConfigWritten(o)
  \/ NoContinuation /\ \E o \in Owners : HealthProbed(o)
  \/ NoContinuation /\ \E p \in Procs : ProcStdoutReady(p)
  \/ NoContinuation /\ \E p \in Procs : ProcListen(p)
  \/ NoContinuation /\ \E p \in Procs : ProcExit(p)
  \/ NoContinuation /\ \E p \in Procs : ProcError(p)
  \/ NoContinuation /\ \E port \in ExternalPorts : ExternalGatewayAppears(port)

ToolSpec == Init /\ [][ToolNext]_vars

(* ======================================================================= *)
(* registerTools (src/src/tools.ts): the tools a server offers             *)
(* ======================================================================= *)

(* values of a configuration field: a boolean option is true, false or not *)
(* given; the Flex token is a non-empty string, the empty string or not    *)
(* given                                                                   *)
OptionValues == {"undefined", "true", "false"}
TokenValues == {"undefined", "", "token"}
UserConfigs == [IB_HEADLESS_MODE : OptionValues,
                IB_READ_ONLY_MODE : OptionValues,
                IB_FLEX_TOKEN : TokenValues]

(* JavaScript truthiness of these values *)
truthy(v) == v \notin {"undefined", "false", ""}

(* if (cond) server.tool(name, ...) *)
toolIf(cond, name) == IF cond THEN <<name>> ELSE <<>>

(* a registration that guards four of the five modifying tools *)
registerToolsUnguardedDelete(userConfig) ==
  LET writable == ~truthy(userConfig.IB_READ_ONLY_MODE)
  IN toolIf(~truthy(userConfig.IB_HEADLESS_MODE), "authenticate")
     \o <<"get_account_info", "get_positions", "get_market_data">>
     \o toolIf(writable, "place_order")
     \o <<"get_order_status", "get_live_orders">>
     \o toolIf(writable, "confirm_order")
     \o <<"get_alerts">>
     \o toolIf(writable, "create_alert")
     \o toolIf(writable, "activate_alert")
     \o <<"delete_alert">>
     \o (IF truthy(userConfig.IB_FLEX_TOKEN)
         THEN <<"get_flex_query", "list_flex_queries", "forget_flex_query">>
         ELSE <<>>)

(* the names passed to server.tool, in the order of the calls *)
registerTools(userConfig) ==
  LET writable == ~truthy(userConfig.IB_READ_ONLY_MODE)
  IN toolIf(~truthy(userConfig.IB_HEADLESS_MODE), "authenticate")
     \o <<"get_account_info", "get_positions", "get_market_data">>
     \o toolIf(writable, "place_order")
     \o <<"get_order_status", "get_live_orders">>
     \o toolIf(writable, "confirm_order")
     \o <<"get_alerts">>
     \o toolIf(writable, "create_alert")
     \o toolIf(writable, "activate_alert")
     \o toolIf(writable, "delete_alert")
     \o (IF truthy(userConfig.IB_FLEX_TOKEN)
         THEN <<"get_flex_query", "list_flex_queries", "forget_flex_query">>
         ELSE <<>>)

(* a server is created with a configuration and its tools are registered *)
CreateServer(userConfig) ==
  /\ Len(servers) < MaxServers
  /\ servers' = Append(servers, [config |-> userConfig, tools |-> registerTools(userConfig)])
  /\ UNCHANGED <<mgrVars, coVars, hostVars, modeVars, shutVars, toolVars, flex, ibClient, probeCount, appVars, histVars>>

RegistryNext == \E userConfig \in UserConfigs : CreateServer(userConfig)

RegistrySpec == Init /\ [][RegistryNext]_vars

(* ======================================================================= *)
(* FlexQueryClient.executeQuery: send the request, then poll for the       *)
(* statement                                                               *)
(* ======================================================================= *)

(* what sendRequest may come back with: a reference code, a success        *)
(* without one, a failure reported by the service, or an exception         *)
SendOutcomes == {"referenceCode", "noReferenceCode", "fail", "throw"}

(* what getStatement may return: the statement, or the error of a response *)
(* with Status Fail                                                        *)
Statement == [data |-> TRUE, error |-> "", errorCode |-> ""]
StatementErrors ==
  { [data |-> FALSE, error |-> "Statement generation in progress", errorCode |-> "1019"],
    [data |-> FALSE, error |-> "Statement is not ready", errorCode |-> "1018"],
    [data |-> FALSE, error |-> "Invalid reference code", errorCode |-> "1015"] }
Answers == {Statement} \cup StatementErrors

(* error.includes("in progress") and error.includes("not ready") on the    *)
(* messages above                                                          *)
includesInProgress(error) == error = "Statement generation in progress"
includesNotReady(error) == error = "Statement is not ready"

(* the test that makes the loop continue *)
notReadyYet(answer) ==
  \/ answer.errorCode = "1019"
  \/ includesInProgress(answer.error)
  \/ includesNotReady(answer.error)

(* the value returned when the loop runs out *)
notReadyAfter(maxRetries) ==
  [data |-> FALSE, error |-> "Statement not ready after retries", errorCode |-> "",
   retries |-> maxRetries]
sendFailed == [data |-> FALSE, error |-> "send failed", errorCode |-> "1001"]
noReferenceCode == [data |-> FALSE, error |-> "No reference code received from flex query service",
                    errorCode |-> ""]

keepRest == UNCHANGED <<mgrVars, coVars, hostVars, modeVars, shutVars, toolVars, servers, ibClient, probeCount, appVars, histVars>>

(* executeQuery(queryId, maxRetries): sendRequest is issued *)
ExecuteQuery(maxRetries) ==
  /\ flex.st = "idle"
  /\ flex' = [flex EXCEPT !.st = "sending", !.maxRetries = maxRetries]
  /\ keepRest

(* a loop that tests `i <= maxRetries` *)
loopHeadInclusive(f) ==
  IF f.i <= f.maxRetries
  THEN [f EXCEPT !.st = "sleeping"]
  ELSE [f EXCEPT !.st = "returned", !.result = notReadyAfter(f.maxRetries)]

(* the loop head `i < maxRetries`: sleep before the next poll, or give up *)
loopHead(f) ==
  IF f.i < f.maxRetries
  THEN [f EXCEPT !.st = "sleeping"]
  ELSE [f EXCEPT !.st = "returned", !.result = notReadyAfter(f.maxRetries)]

(* sendRequest settles *)
SendRequestDone ==
  /\ flex.st = "sending"
  /\ \E outcome \in SendOutcomes :
       LET f == [flex EXCEPT !.sent = outcome]
       IN flex' = CASE outcome = "throw" -> [f EXCEPT !.st = "thrown"]
                    [] outcome = "fail" -> [f EXCEPT !.st = "returned", !.result = sendFailed]
                    [] outcome = "noReferenceCode" ->
                         [f EXCEPT !.st = "returned", !.result = noReferenceCode]
                    [] OTHER -> loopHead(f)
  /\ keepRest

(* the retry delay has passed: getStatement is issued *)
RetryTimerFired ==
  /\ flex.st = "sleeping"
  /\ flex' = [flex EXCEPT !.st = "polling", !.polls = @ + 1]
  /\ keepRest

(* getStatement settles: an exception ends the call, a not-ready answer    *)
(* continues the loop, any other answer is returned                        *)
GetStatementDone ==
  /\ flex.st = "polling"
  /\ \/ flex' = [flex EXCEPT !.st = "thrown"]
     \/ \E answer \in Answers :
          LET f == [flex EXCEPT !.answers = Append(@, answer)]
          IN flex' = IF answer.error # "" /\ notReadyYet(answer)
                     THEN loopHead([f EXCEPT !.i = @ + 1])
                     ELSE [f EXCEPT !.st = "returned", !.result = answer]
  /\ keepRest

FlexNext ==
  \/ \E maxRetries \in 0..MaxRetriesLimit : ExecuteQuery(maxRetries)
  \/ SendRequestDone
  \/ RetryTimerFired
  \/ GetStatementDone

(* timers fire and HTTP requests settle (the client has a 60 s timeout) *)
FlexSpec == Init /\ [][FlexNext]_vars /\ WF_vars(FlexNext)

(* ======================================================================= *)
(* IBClient session maintenance: the tickle interval                       *)
(* ======================================================================= *)

keepOthers == UNCHANGED <<mgrVars, coVars, hostVars, modeVars, shutVars, toolVars, servers, flex, probeCount, appVars, histVars>>

(* startTickle: setInterval unless one is running *)
startTickle(client) == [client EXCEPT !.tickleInterval = TRUE]

(* stopTickle: clearInterval *)
stopTickle(client) == [client EXCEPT !.tickleInterval = FALSE]

(* checkAuthenticationStatus is called: GET /iserver/auth/status is issued *)
CheckAuthenticationStatus ==
  /\ ~ibClient.destroyed
  /\ ibClient.authChecks < MaxInFlight
  /\ ibClient' = [ibClient EXCEPT !.authChecks = @ + 1]
  /\ keepOthers

(* the status request settles: authenticated starts the interval, anything *)
(* else (not authenticated, or the request failed) stops it                *)
AuthStatusDone ==
  /\ ibClient.authChecks > 0
  /\ \E authenticated \in BOOLEAN :
       LET client == [ibClient EXCEPT !.authChecks = @ - 1]
       IN ibClient' = IF authenticated THEN startTickle(client) ELSE stopTickle(client)
  /\ keepOthers

(* the interval fires: tickle() issues POST /tickle *)
TickleTimerFired ==
  /\ ibClient.tickleInterval
  /\ ibClient.tickles < MaxInFlight
  /\ ibClient' = [ibClient EXCEPT !.tickles = @ + 1,
                                  !.tickledAfterDestroy = @ \/ ibClient.destroyed]
  /\ keepOthers

(* the tickle request settles; after a failure tickle() checks the         *)
(* authentication status                                                   *)
TickleDone ==
  /\ ibClient.tickles > 0
  /\ \E ok \in BOOLEAN :
       IF ok \/ ibClient.authChecks >= MaxInFlight
       THEN ibClient' = [ibClient EXCEPT !.tickles = @ - 1]
       ELSE ibClient' = [ibClient EXCEPT !.tickles = @ - 1, !.authChecks = @ + 1]
  /\ keepOthers

(* destroy() *)
Destroy ==
  /\ ~ibClient.destroyed
  /\ ibClient' = [stopTickle(ibClient) EXCEPT !.destroyed = TRUE]
  /\ keepOthers

TickleNext ==
  \/ CheckAuthenticationStatus
  \/ AuthStatusDone
  \/ TickleTimerFired
  \/ TickleDone
  \/ Destroy

TickleSpec == Init /\ [][TickleNext]_vars

(* ======================================================================= *)
(* waitForGateway with the rounds the source allows: one call of           *)
(* ensureGatewayReady on a fresh manager, followed through its startup     *)
(* ======================================================================= *)

WaitCallers == {1}

(* a loop that tests `attempts <= maxAttempts` *)
WaitForGatewayInclusive(o) ==
  /\ mq = <<>>
  /\ seq[o].st = "waiting"
  /\ probeCount' = probeCount + 1
  /\ IF checkGatewayHealth
     THEN finishStartup(o)
     ELSE IF seq[o].attempts + 1 > maxAttempts
          THEN failStartup(o)
          ELSE /\ seq' = [seq EXCEPT ![o].attempts = @ + 1]
               /\ keepFlags /\ keepSettle
  /\ UNCHANGED <<currentPort, gatewayProcess, procs, overlays>>
  /\ UNCHANGED <<shutVars, toolVars, servers, flex, ibClient, appVars, modeVars,
                 installed, runtimePresent, occupied, extGateway, fellThrough>>

(* one round of waitForGateway: the health probe answers; on success the   *)
(* loop returns, otherwise attempts is incremented, the loop sleeps 1 s    *)
(* and, once attempts has reached maxAttempts, throws                      *)
WaitForGateway(o) ==
  /\ mq = <<>>
  /\ seq[o].st = "waiting"
  /\ probeCount' = probeCount + 1
  /\ IF checkGatewayHealth
     THEN finishStartup(o)
     ELSE IF seq[o].attempts + 1 >= maxAttempts
          THEN failStartup(o)
          ELSE /\ seq' = [seq EXCEPT ![o].attempts = @ + 1]
               /\ keepFlags /\ keepSettle
  /\ UNCHANGED <<currentPort, gatewayProcess, procs, overlays>>
  /\ UNCHANGED <<shutVars, toolVars, servers, flex, ibClient, appVars, modeVars,
                 installed, runtimePresent, occupied, extGateway, fellThrough>>

WaitNext ==
  \/ \E c \in WaitCallers : CallEnsure(c)
  \/ \E c \in WaitCallers : DiscoverDone(c)
  \/ \E o \in Owners : InstallChecked(o)
  \/ \E o \in Owners : PortChecked(o)
  \/ \E o \in Owners : AltPortFound(o)
  \/ \E o \in Owners : ConfigWritten(o)
  \/ \E o \in Owners : WaitForGateway(o)
  \/ \E p \in Procs : ProcStdoutReady(p)
  \/ \E p \in Procs : ProcListen(p)
  \/ \E p \in Procs : ProcExit(p)
  \/ \E p \in Procs : ProcError(p)

(* the health probe settles (its request has a 5 s timeout) and the 1 s    *)
(* timer fires; the file and port checks before the launch settle too      *)
WaitSpec ==
  /\ Init
  /\ [][WaitNext]_vars
  /\ WF_vars(\E o \in Owners : WaitForGateway(o))
  /\ WF_vars(\E o \in Owners : InstallChecked(o) \/ PortChecked(o) \/ AltPortFound(o) \/ ConfigWritten(o))

(* ======================================================================= *)
(* IBClient authentication: the request interceptor, authenticate(),       *)
(* checkAuthenticationStatus() and updatePort().  Every request of the     *)
(* client (also the one tickle() makes after a failed ping) goes through   *)
(* these operations.                                                       *)
(* ======================================================================= *)

keepApp == UNCHANGED <<mgrVars, coVars, hostVars, modeVars, shutVars, toolVars, libVars, histVars>>
keepAuth == keepApp /\ UNCHANGED <<storage, order>>

Slots == 1..MaxInFlight

(* the first slot that holds no request in flight; 0 if there is none *)
freeSlot(reqs) ==
  IF \A i \in Slots : reqs[i].st # "none" THEN 0
  ELSE CHOOSE i \in Slots : reqs[i].st = "none" /\ \A j \in 1..(i - 1) : reqs[j].st # "none"

(* the counter was reset: the attempts in flight belong to the past *)
outdated(reqs) == [i \in Slots |-> IF reqs[i].st = "none" THEN reqs[i]
                                   ELSE [reqs[i] EXCEPT !.fresh = FALSE]]

(* first statements of authenticate(): the attempt is counted and GET      *)
(* /iserver/auth/status is sent to the base URL of the moment              *)
authenticate(s) ==
  [s EXCEPT !.authAttempts = @ + 1,
            !.auths[freeSlot(s.auths)] = [st |-> "status", port |-> s.port, fresh |-> TRUE],
            !.last = "authenticating"]

(* an interceptor that authenticates however many attempts were made *)
interceptUnlimited(s) ==
  IF s.isAuthenticated THEN [s EXCEPT !.last = "sent"]
  ELSE authenticate(s)

(* the request interceptor: an authenticated client sends the request; an  *)
(* unauthenticated one throws once the attempts are used up and            *)
(* authenticates otherwise                                                 *)
intercept(s) ==
  IF s.isAuthenticated THEN [s EXCEPT !.last = "sent"]
  ELSE IF s.authAttempts >= maxAuthAttempts THEN [s EXCEPT !.last = "maxExceeded"]
  ELSE authenticate(s)

(* a request is made through this.client *)
ApiRequest ==
  /\ (~session.isAuthenticated /\ session.authAttempts < maxAuthAttempts)
       => freeSlot(session.auths) # 0
  /\ session' = intercept(session)
  /\ keepAuth

(* authenticate() succeeds: the flag is set, the counter reset, the tickle *)
(* started, and the interceptor lets the request go                        *)
authSucceeded(s, i) ==
  [s EXCEPT !.isAuthenticated = TRUE, !.authAttempts = 0, !.tickleInterval = TRUE,
            !.auths = outdated([s.auths EXCEPT ![i] = NoRequest]),
            !.last = "authOk", !.failed = 0, !.authPort = s.auths[i].port]

(* the catch block of authenticate(): it only throws *)
authFailed(s, i) ==
  [s EXCEPT !.auths[i] = NoRequest, !.last = "authFailed",
            !.failed = IF s.auths[i].fresh /\ @ < maxAuthAttempts THEN @ + 1 ELSE @]

(* GET /iserver/auth/status of an authenticate() call settles *)
AuthStatusAnswered(i) ==
  /\ session.auths[i].st = "status"
  /\ \/ session' = authSucceeded(session, i)
     \/ session' = [session EXCEPT !.auths[i].st = "reauth", !.last = "reauthenticating"]
     \/ session' = authFailed(session, i)
  /\ keepAuth

(* POST /iserver/reauthenticate settles *)
ReauthAnswered(i) ==
  /\ session.auths[i].st = "reauth"
  /\ \/ session' = authSucceeded(session, i)
     \/ session' = authFailed(session, i)
  /\ keepAuth

(* checkAuthenticationStatus() is called: its request goes to the base URL *)
(* of the moment                                                           *)
CheckStatus ==
  /\ freeSlot(session.checks) # 0
  /\ session' = [session EXCEPT
                   !.checks[freeSlot(session.checks)] =
                      [st |-> "status", port |-> session.port, fresh |-> TRUE],
                   !.last = "checking"]
  /\ keepAuth

(* the status request of checkAuthenticationStatus() settles: with         *)
(* authenticated === true, with another answer, or with an error           *)
CheckAnswered(i) ==
  /\ session.checks[i].st = "status"
  /\ \E authenticated \in BOOLEAN :
       session' =
         IF authenticated
         THEN [session EXCEPT !.isAuthenticated = TRUE, !.authAttempts = 0,
                              !.tickleInterval = TRUE,
                              !.checks[i] = NoRequest,
                              !.auths = outdated(session.auths),
                              !.last = "checkOk", !.failed = 0,
                              !.authPort = session.checks[i].port]
         ELSE [session EXCEPT !.isAuthenticated = FALSE, !.tickleInterval = FALSE,
                              !.checks[i] = NoRequest,
                              !.last = "checkFailed", !.authPort = 0]
  /\ keepAuth

(* updatePort(newPort) *)
UpdatePort(newPort) ==
  /\ session' =
       IF session.port # newPort
       THEN [session EXCEPT !.tickleInterval = FALSE, !.port = newPort,
                            !.isAuthenticated = FALSE, !.authAttempts = 0,
                            !.auths = outdated(session.auths),
                            !.last = "updatePort", !.failed = 0, !.authPort = 0]
       ELSE [session EXCEPT !.last = "samePort"]
  /\ keepAuth

AuthNext ==
  \/ ApiRequest
  \/ \E i \in Slots : AuthStatusAnswered(i)
  \/ \E i \in Slots : ReauthAnswered(i)
  \/ CheckStatus
  \/ \E i \in Slots : CheckAnswered(i)
  \/ \E newPort \in ClientPorts : UpdatePort(newPort)

(* a fresh client; the host plays no part *)
AuthInit == Init /\ installed /\ runtimePresent /\ occupied = {}

AuthSpec == AuthInit /\ [][AuthNext]_vars

(* ======================================================================= *)
(* FlexQueryStorage: every operation awaits load() (readFile, then          *)
(* this.store is replaced by the parsed text), works on this.store, and,   *)
(* if it changed something, awaits save() (the text is produced at the     *)
(* call, writeFile completes later).  Several calls may be in flight.      *)
(* ======================================================================= *)

keepStorage == keepApp /\ UNCHANGED <<session, order>>

StorageCalls == 1..MaxStorageCalls

(* the arguments of the operations: op, id, name, queryId ("" and 0 stand  *)
(* for a field that is not given)                                          *)
StorageInputs ==
  [op : {"saveQuery"}, id : {0}, name : QueryNames, queryId : QueryIds]
    \cup [op : {"updateQuery"}, id : StorageCalls, name : QueryNames, queryId : {""}]
    \cup [op : {"updateQuery"}, id : StorageCalls, name : {""}, queryId : QueryIds]
    \cup [op : {"markQueryUsed", "deleteQuery"}, id : StorageCalls, name : {""}, queryId : {""}]

(* save(): JSON.stringify(this.store) now, writeFile in flight *)
save(queries, c, result) ==
  [store |-> queries, call |-> [c EXCEPT !.st = "saving", !.data = queries, !.result = result]]

settled(queries, c, st, result) ==
  [store |-> queries, call |-> [c EXCEPT !.st = st, !.result = result]]

(* generateId(): an id no other call produces; here the number of the call *)
generateId(k) == k

(* saveQuery after load() *)
saveQuery(queries, c, k) ==
  IF \E q \in queries : q.queryId = c.queryId
  THEN settled(queries, c, "rejected", "alreadyExists")
  ELSE save(queries \cup {[id |-> generateId(k), name |-> c.name, queryId |-> c.queryId,
                            lastUsed |-> FALSE]},
            c, "saved")

(* { ...query, ...updates } *)
merged(q, c) ==
  [q EXCEPT !.name = IF c.name # "" THEN c.name ELSE @,
            !.queryId = IF c.queryId # "" THEN c.queryId ELSE @]

(* updateQuery after load() *)
updateQuery(queries, c) ==
  IF ~\E q \in queries : q.id = c.id
  THEN settled(queries, c, "rejected", "notFound")
  ELSE IF c.name # "" /\ \E q \in queries : q.id # c.id /\ q.name = c.name
  THEN settled(queries, c, "rejected", "nameConflict")
  ELSE save({IF q.id = c.id THEN merged(q, c) ELSE q : q \in queries}, c, "updated")

(* markQueryUsed after load() *)
markQueryUsed(queries, c) ==
  IF \E q \in queries : q.id = c.id
  THEN save({IF q.id = c.id THEN [q EXCEPT !.lastUsed = TRUE] ELSE q : q \in queries},
            c, "marked")
  ELSE settled(queries, c, "done", "unknown")

(* deleteQuery after load() *)
deleteQuery(queries, c) ==
  IF \E q \in queries : q.id = c.id
  THEN save({q \in queries : q.id # c.id}, c, "deleted")
  ELSE settled(queries, c, "done", "notDeleted")

(* an operation is called: load() issues readFile *)
CallStorage(k, input) ==
  /\ storage.calls[k].st = "none"
  /\ (IF k = 1 THEN TRUE ELSE storage.calls[k - 1].st # "none")
  /\ storage' = [storage EXCEPT !.calls[k] =
                   [NoStorageCall EXCEPT !.op = input.op, !.st = "loading", !.id = input.id,
                                         !.name = input.name, !.queryId = input.queryId]]
  /\ keepStorage

(* readFile completes: this.store becomes what the file holds now, and the *)
(* operation runs up to its save()                                         *)
LoadDone(k) ==
  /\ storage.calls[k].st = "loading"
  /\ LET c == storage.calls[k]
         next == CASE c.op = "saveQuery" -> saveQuery(storage.file, c, k)
                   [] c.op = "updateQuery" -> updateQuery(storage.file, c)
                   [] c.op = "markQueryUsed" -> markQueryUsed(storage.file, c)
                   [] OTHER -> deleteQuery(storage.file, c)
     IN storage' = [storage EXCEPT !.store = next.store, !.calls[k] = next.call]
  /\ keepStorage

(* writeFile completes: the file holds the text of this call; the          *)
(* operation resolves                                                      *)
WriteDone(k) ==
  /\ storage.calls[k].st = "saving"
  /\ storage' = [storage EXCEPT !.file = storage.calls[k].data, !.calls[k].st = "done"]
  /\ keepStorage

StorageNext ==
  \/ \E k \in StorageCalls, input \in StorageInputs : CallStorage(k, input)
  \/ \E k \in StorageCalls : LoadDone(k)
  \/ \E k \in StorageCalls : WriteDone(k)

StorageSpec == AuthInit /\ [][StorageNext]_vars

(* ======================================================================= *)
(* IBClient.placeOrder: symbol search, order POST, and the automatic reply *)
(* to a confirmation prompt                                                *)
(* ======================================================================= *)

keepOrder == keepApp /\ UNCHANGED <<session, storage>>

(* the order requests: suppressConfirmations is optional, price and        *)
(* stopPrice may be given or not                                           *)
OrderRequests ==
  [suppressConfirmations : {"undefined", "false", "true"},
   orderType : {"MKT", "LMT", "STP"}, price : BOOLEAN, stopPrice : BOOLEAN]

(* what the gateway may answer to the order POST and to the reply: a       *)
(* confirmation prompt [{id, message, messageIds}], the acknowledgement of *)
(* the order [{order_id, order_status}] or [{id, status}], an empty list,  *)
(* an error object                                                         *)
GatewayAnswers ==
  { [kind |-> "prompt", isArray |-> TRUE, length |-> 1, id |-> TRUE, message |-> TRUE,
     messageIds |-> TRUE],
    [kind |-> "ack", isArray |-> TRUE, length |-> 1, id |-> FALSE, message |-> FALSE,
     messageIds |-> FALSE],
    [kind |-> "ack", isArray |-> TRUE, length |-> 1, id |-> TRUE, message |-> FALSE,
     messageIds |-> FALSE],
    [kind |-> "empty", isArray |-> TRUE, length |-> 0, id |-> FALSE, message |-> FALSE,
     messageIds |-> FALSE],
    [kind |-> "errorObject", isArray |-> FALSE, length |-> 0, id |-> FALSE, message |-> FALSE,
     messageIds |-> FALSE] }

(* what the call throws from its catch block *)
authError == [NoResponse EXCEPT !.kind = "authRequired"]
placeFailed == [NoResponse EXCEPT !.kind = "failedToPlaceOrder"]

(* isAuthenticationError on the errors of the model: a request that failed *)
(* with status 401/403/500, or the authentication error of confirmOrder    *)
isAuthenticationError(error) == error = "auth"

thrown(o, error) ==
  [o EXCEPT !.st = "thrown",
            !.result = IF isAuthenticationError(error) THEN authError ELSE placeFailed]

(* the order object of the POST *)
orderBody(o) ==
  {"conid", "orderType", "side", "quantity", "tif"}
    \cup (IF o.orderType = "LMT" /\ o.price THEN {"price"} ELSE {})
    \cup (IF o.orderType = "STP" /\ o.stopPrice THEN {"auxPrice"} ELSE {})

(* a test that replies to every confirmation prompt *)
needsConfirmationAlways(o, data) ==
  /\ data.isArray /\ data.length > 0
  /\ data.id /\ data.message /\ data.messageIds

(* the test on the answer to the order POST *)
needsConfirmation(o, data) ==
  /\ data.isArray /\ data.length > 0
  /\ data.id /\ data.message /\ data.messageIds
  /\ truthy(o.suppressConfirmations)

(* placeOrder(orderRequest): the symbol search is sent *)
PlaceOrder(req) ==
  /\ order.st \in {"idle", "returned", "thrown"}
  /\ order' = [NoOrder EXCEPT !.st = "searching",
                              !.suppressConfirmations = req.suppressConfirmations,
                              !.orderType = req.orderType,
                              !.price = req.price, !.stopPrice = req.stopPrice,
                              !.sent = <<"search">>]
  /\ keepOrder

(* the search settles: with a contract the order is posted; without one,   *)
(* or when the request failed, the call throws                             *)
SearchAnswered ==
  /\ order.st = "searching"
  /\ \/ order' = [order EXCEPT !.st = "ordering", !.body = orderBody(order),
                               !.sent = Append(@, "order")]
     \/ order' = thrown(order, "notFound")
     \/ \E error \in {"auth", "other"} : order' = thrown(order, error)
  /\ keepOrder

(* the order POST settles *)
OrderAnswered ==
  /\ order.st = "ordering"
  /\ \/ \E data \in GatewayAnswers :
          order' = IF needsConfirmation(order, data)
                   THEN [order EXCEPT !.st = "confirming", !.response = data,
                                      !.sent = Append(@, "reply")]
                   ELSE [order EXCEPT !.st = "returned", !.response = data, !.result = data]
     \/ \E error \in {"auth", "other"} : order' = thrown(order, error)
  /\ keepOrder

(* confirmOrder: POST /iserver/reply/<id> settles; its answer is returned  *)
(* as it is, its error is rethrown by both catch blocks                    *)
ReplyAnswered ==
  /\ order.st = "confirming"
  /\ \/ \E data \in GatewayAnswers : order' = [order EXCEPT !.st = "returned", !.result = data]
     \/ \E error \in {"auth", "other"} : order' = thrown(order, error)
  /\ keepOrder

OrderNext ==
  \/ \E req \in OrderRequests : PlaceOrder(req)
  \/ SearchAnswered
  \/ OrderAnswered
  \/ ReplyAnswered

OrderSpec == AuthInit /\ [][OrderNext]_vars

TypeOK ==
  /\ isStarting \in BOOLEAN /\ isReady \in BOOLEAN
  /\ gatewayProcess \in 0..MaxSpawns
  /\ currentPort \in Ports \cup EndpointPorts
  /\ backgroundStartupPromise \in {"none", "pending", "fulfilled"}
  /\ externalEndpoint \in {NoEndpoint} \cup [host : ExternalHosts, port : EndpointPorts]
  /\ remoteAlive \in BOOLEAN
  /\ probes \in [Callers -> 0..1]
  /\ \A c \in Callers : pc[c] \in {"idle", "discover", "qdiscover", "awaitBg",
                                    "awaitSeq", "done", "rejected",
                                    "quickDone", "stopDone",
                                    "extProbe", "unreachable"}
  /\ nodeProcess \in {"running"} \cup Signals
  /\ shutdownHooks \in BOOLEAN
  /\ \A i \in 1..MaxCleanups : cleanups[i].st \in {"none", "readdir", "unlink", "done"}
  /\ clientPort \in Ports
  /\ \A c \in Callers : tool[c] \in {"none", "initialized", "called", "errorText"}
  /\ Len(servers) <= MaxServers
  /\ flex.st \in {"idle", "sending", "sleeping", "polling", "returned", "thrown"}
  /\ flex.maxRetries \in 0..MaxRetriesLimit
  /\ ibClient.authChecks \in 0..MaxInFlight /\ ibClient.tickles \in 0..MaxInFlight
  /\ probeCount \in 0..maxAttempts
  /\ DOMAIN storage.calls = StorageCalls
  /\ \A k \in StorageCalls :
       storage.calls[k].op \in {"none", "saveQuery", "updateQuery", "markQueryUsed", "deleteQuery"}
  /\ order.st \in {"idle", "searching", "ordering", "confirming", "returned", "thrown"}
  /\ Len(order.sent) <= 3
  /\ session.port \in ClientPorts
  /\ session.isAuthenticated \in BOOLEAN /\ session.tickleInterval \in BOOLEAN
  /\ session.authAttempts \in 0..maxAuthAttempts
  /\ \A i \in Slots : /\ session.auths[i].st \in {"none", "status", "reauth"}
                       /\ session.checks[i].st \in {"none", "status"}

(* ======================================================================= *)
(* properties                                                              *)
(* ======================================================================= *)

(* steps at which the manager's readiness is set *)
StdoutDetect == \E p \in Procs : ~procs[p].printed /\ procs'[p].printed
HealthDetect == \E o \in Owners : seq[o].st = "waiting" /\ seq'[o].st = "none"
                                  /\ checkGatewayHealth
AdoptDetect == \E c \in Callers : /\ pc[c] \in {"discover", "qdiscover"}
                                  /\ pc'[c] \in {"done", "quickDone"}
                                  /\ findExistingGateway # 0

C2_ResolvesOnlyWhenReady ==
  [][\A c \in Callers :
       (pc[c] \in {"discover", "awaitBg", "awaitSeq"} /\ pc'[c] = "done") => isReady']_vars

(* C3: isStarting and isReady are not both true in two consecutive states.  *)
C3_FlagsNeverBothTrue ==
  [][~(isStarting /\ isReady /\ isStarting' /\ isReady')]_vars

(* C4: a stopGateway step changes no spawned process, clears the process    *)
(* handle and both flags (isGatewayReady() is false) and keeps currentPort. *)
C4_StopOnlyDisconnects ==
  [][\A c \in Callers :
       (pc[c] = "idle" /\ pc'[c] = "stopDone")
         => /\ procs' = procs
            /\ gatewayProcess' = 0
            /\ ~isReady' /\ ~isStarting' /\ ~isGatewayReady'
            /\ currentPort' = currentPort]_vars

C4_Witness ==
  /\ \E c \in Callers : pc[c] = "stopDone"
  /\ spawnCount = 1 /\ procs[1].st = "listening"
  /\ gatewayProcess = 0 /\ ~isReady /\ ~isStarting

(* C5: a call of ensureGatewayReady is rejected only in the step in which   *)
(* the startup sequence it started itself ends; in particular never in the  *)
(* step that resumes it after the background startup has failed.            *)
C5_OnlySyncFailureRejects ==
  [][\A c \in Callers :
       (pc[c] # "rejected" /\ pc'[c] = "rejected")
         => /\ pc[c] = "awaitSeq"
            /\ seq[c].st # "none" /\ seq'[c].st = "none"]_vars

C5_Witness == fellThrough /\ \E c \in Callers : pc[c] = "rejected"

(* C6: the step in which the background startup fails leaves no stored      *)
(* handle, isStarting and isReady false and no unhandled rejection, so that *)
(* the guards of a fresh startup are open.                                  *)
C6_BackgroundFailureRecoverable ==
  [][(/\ seq[BgOwner].st # "none" /\ seq'[BgOwner].st = "none"
      /\ backgroundStartupPromise' # "fulfilled")
       => /\ backgroundStartupPromise' = "none"
          /\ ~isStarting' /\ ~isReady'
          /\ ~unhandled']_vars

C6_Witness ==
  /\ pc[1] = "quickDone" /\ extGateway = 0
  /\ backgroundStartupPromise = "none" /\ ~unhandled
  /\ pc[2] = "awaitSeq" /\ seq[2].st # "none"

C8_QuickStartDoesNotWait ==
  [][\A c \in Callers :
       /\ (pc[c] = "qdiscover" /\ pc'[c] # "qdiscover")
            => /\ pc'[c] = "quickDone"
               /\ (findExistingGateway = 0 => backgroundStartupPromise' # "none")
       /\ (pc[c] = "quickDone" => pc'[c] = "quickDone")]_vars

C8_Witness ==
  /\ pc[1] = "quickDone" /\ extGateway = 0
  /\ backgroundStartupPromise = "pending" /\ seq[BgOwner].st = "waiting"
  /\ ~isReady

(* C9: when quickStartGateway finds a gateway on port P it returns with     *)
(* currentPort = P, isGatewayReady() true and no process spawned.           *)
C9_QuickStartAdopts ==
  [][\A c \in Callers :
       (pc[c] = "qdiscover" /\ pc'[c] = "quickDone" /\ findExistingGateway # 0)
         => /\ currentPort' = findExistingGateway
            /\ isGatewayReady'
            /\ procs' = procs]_vars

(* C10, as stated: after a quickStartGateway whose background startup       *)
(* launched the only processes (no stopGateway, no synchronous startup),    *)
(* isGatewayReady() becomes true only in a step that detects readiness by   *)
(* stdout or by a health probe, and is true after every such step.          *)
C10_FalseUntilDetected ==
  [][(/\ \E c \in Callers : pc[c] = "quickDone"
      /\ spawnCount >= 1
      /\ \A c \in Callers : pc[c] \in {"idle", "qdiscover", "quickDone", "discover", "awaitBg"})
       => /\ (~isGatewayReady /\ isGatewayReady') => (StdoutDetect \/ HealthDetect)
          /\ (StdoutDetect \/ HealthDetect) => isGatewayReady']_vars

(* C10, as amended: isReady (without which isGatewayReady() is false) is    *)
(* set only by a stdout match, a successful health probe or the adoption of *)
(* a discovered gateway; after a stdout match or a successful health probe  *)
(* isGatewayReady() is true if the process handle is still stored.          *)
C10_ReadyOnlyByDetection ==
  [][/\ (~isReady /\ isReady') => (StdoutDetect \/ HealthDetect \/ AdoptDetect)
     /\ ((StdoutDetect \/ HealthDetect) /\ gatewayProcess' # 0) => isGatewayReady']_vars

C10_Witness ==
  /\ pc[1] = "quickDone" /\ pc[2] = "idle" /\ extGateway = 0
  /\ spawnCount = 1 /\ backgroundStartupPromise = "fulfilled"
  /\ isGatewayReady

(* C11: a startup sequence that is the only one to have spawned a process   *)
(* fails in waitForGateway (attempt budget used up) only if the process has *)
(* not printed its readiness line.                                          *)
C11_TimeoutOnlyWithoutSignal ==
  [][\A o \in Owners :
       (/\ seq[o].st = "waiting" /\ seq'[o].st = "none"
        /\ ~checkGatewayHealth
        /\ spawnCount = 1)
         => ~procs[1].printed]_vars

(* C12: the step of an 'exit' or 'error' event of a spawned process leaves  *)
(* isReady and isStarting false and the stored process handle null.         *)
C12_ExitOrErrorClearsHandle ==
  [][\A p \in Procs :
       (Alive(p) /\ ~Alive(p)')
         => /\ ~isReady' /\ ~isStarting'
            /\ gatewayProcess' = 0]_vars

(* C13: the step in which a startup sequence ends by a thrown error (every  *)
(* end other than a successful health probe) leaves isStarting and isReady  *)
(* false and delivers the rejection in that same step: to the caller of a   *)
(* synchronous sequence, or to the stored background promise (cleared, its  *)
(* awaiters all resumed with the failure).                                  *)
C13_ThrowResetsAndRethrows ==
  [][\A o \in Owners :
       (/\ seq[o].st # "none" /\ seq'[o].st = "none"
        /\ ~(seq[o].st = "waiting" /\ checkGatewayHealth))
         => /\ ~isStarting' /\ ~isReady'
            /\ IF o = BgOwner
               THEN /\ backgroundStartupPromise' = "none"
                    /\ Len(mq') = Len(awaiters)
                    /\ \A i \in 1..Len(mq') : ~mq'[i].ok /\ mq'[i].c = awaiters[i]
               ELSE pc'[o] = "rejected"]_vars

C13_Witness ==
  /\ \E c \in Callers : pc[c] = "rejected"
  /\ installed /\ runtimePresent
  /\ spawnCount = 1 /\ procs[1].printed
  /\ ~isStarting /\ ~isReady

(* C14: when the discovery of an ensureGatewayReady call (entered while not *)
(* ready) finds a gateway on port P, the step that resumes the call sets    *)
(* currentPort = P and isReady = true and returns; it spawns nothing and    *)
(* starts no startup sequence.                                              *)
C14_EnsureAdoptsExisting ==
  [][\A c \in Callers :
       (pc[c] = "discover" /\ pc'[c] # "discover" /\ findExistingGateway # 0)
         => /\ currentPort' = findExistingGateway
            /\ isReady'
            /\ pc'[c] = "done"
            /\ procs' = procs /\ gatewayProcess' = gatewayProcess
            /\ seq' = seq /\ isStarting' = isStarting
            /\ awaiters' = awaiters]_vars

C14_Witness ==
  /\ pc[1] = "done" /\ pc[2] = "idle"
  /\ extGateway # 0 /\ currentPort = extGateway /\ currentPort # defaultPort
  /\ isReady /\ ~isStarting
  /\ spawnCount = 0 /\ \A o \in Owners : seq[o].st = "none"

(* the ports of start..start+n-1 that isPortAvailable reports free *)
FreePorts(start, n) == {q \in start..(start + n - 1) : isPortAvailable(q)}

(* C15: with port 5000 occupied and a port of 5001..5009 free, the sequence *)
(* selects the lowest free port P, spawns nothing before the overlay for P  *)
(* is written, and launches with conf-P.yaml on port P.                     *)
C15_AltPortOverlayLaunch ==
  [][\A o \in Owners :
       /\ (/\ seq[o].st = "findPort" /\ seq'[o] # seq[o]
           /\ FreePorts(altStartPort, altMaxAttempts) # {})
            => /\ seq'[o].st = "writeConfig"
               /\ currentPort' \in FreePorts(altStartPort, altMaxAttempts)
               /\ \A q \in FreePorts(altStartPort, altMaxAttempts) : currentPort' <= q
               /\ seq'[o].ovl = currentPort'
               /\ procs' = procs
       /\ (seq[o].st = "writeConfig" /\ seq'[o].st = "waiting")
            => /\ seq[o].ovl \in overlays'
               /\ currentPort' = seq[o].ovl
               /\ gatewayProcess' # 0
               /\ procs[gatewayProcess'].st = "none"
               /\ procs'[gatewayProcess'].port = seq[o].ovl
               /\ procs'[gatewayProcess'].conf = seq[o].ovl]_vars

(* C16: with port 5000 and every port of 5001..5009 occupied, the step that *)
(* ends the port search does not fail the startup: it sets currentPort to   *)
(* 5000, writes no overlay and spawns with the base configuration.          *)
C16_NoPortFallsBackToDefault ==
  [][\A o \in Owners :
       (/\ seq[o].st = "findPort" /\ seq'[o] # seq[o]
        /\ FreePorts(altStartPort, altMaxAttempts) = {})
         => /\ currentPort' = defaultPort
            /\ overlays' = overlays
            /\ runtimePresent
                 => /\ seq'[o].st = "waiting"
                    /\ pc' = pc /\ backgroundStartupPromise' = backgroundStartupPromise
                    /\ isStarting'
                    /\ gatewayProcess' # 0
                    /\ procs[gatewayProcess'].st = "none"
                    /\ procs'[gatewayProcess'].port = defaultPort
                    /\ procs'[gatewayProcess'].conf = 0]_vars

C16_Witness ==
  /\ occupied = Ports
  /\ \E c \in Callers : pc[c] = "awaitSeq" /\ seq[c].st = "waiting"
  /\ spawnCount = 1 /\ gatewayProcess = 1
  /\ procs[1].port = defaultPort /\ procs[1].conf = 0
  /\ currentPort = defaultPort /\ overlays = {}

(* C17: findAvailablePort(start, n) is 0 (the thrown error) exactly when no *)
(* port of start..start+n-1 is reported free, and otherwise the lowest port *)
(* of that range that is reported free.                                     *)
C17_FindAvailablePortLowestFree ==
  \A start \in {defaultPort, altStartPort} : \A n \in 0..(altMaxAttempts + 1) :
    LET r == findAvailablePort(start, n) IN
    IF FreePorts(start, n) = {}
    THEN r = 0
    ELSE r \in FreePorts(start, n) /\ \A q \in FreePorts(start, n) : r <= q

C17_Witness ==
  /\ \E o \in Owners : seq[o].st = "writeConfig" /\ seq[o].ovl = altStartPort + 2
  /\ currentPort = altStartPort + 2
  /\ ~isPortAvailable(altStartPort) /\ ~isPortAvailable(altStartPort + 1)
  /\ findAvailablePort(altStartPort, altMaxAttempts) = altStartPort + 2

(* C18: findExistingGateway is the lowest of the candidate ports 5000..5005 *)
(* that is both reported in use and classified as a gateway, and null (0)   *)
(* when there is none; a port held by something else is never returned.     *)
C18_FindExistingGatewayLowest ==
  LET candidates == {commonPorts[i] : i \in 1..Len(commonPorts)}
      gateways == {q \in candidates : ~isPortAvailable(q) /\ isGatewayProcess(q)}
      r == findExistingGateway
  IN  /\ IF gateways = {}
         THEN r = 0
         ELSE r \in gateways /\ \A q \in gateways : r <= q
      /\ r \notin occupied

C18_Witness ==
  /\ defaultPort \in occupied
  /\ Listening(altStartPort)
  /\ extGateway > altStartPort
  /\ findExistingGateway = altStartPort
  /\ \E c \in Callers : pc[c] = "done" /\ currentPort = altStartPort /\ isReady

C21_CleanupOnlyRemovesOverlays ==
  [][cleanups' # cleanups =>
       /\ procs' = procs
       /\ \A n \in Listing \ Listing' : isTempConfig(n)
       /\ originalConfigName \in Listing => originalConfigName \in Listing']_vars

(* a cleanup started by SIGHUP has removed an overlay and ended the host     *)
(* process while a spawned gateway is alive and conf.yaml is in place        *)
C21_Witness ==
  /\ nodeProcess = "SIGHUP"
  /\ \E i \in 1..MaxCleanups : /\ cleanups[i].sig = "SIGHUP"
                               /\ cleanups[i].st = "done"
                               /\ cleanups[i].removed # {}
  /\ \E p \in Procs : Alive(p)
  /\ originalConfigName \in dir

(* C22: when the host process has ended in the handling of SIGINT or         *)
(* SIGTERM, no overlay written by the manager is left in the directory.      *)
C22_OverlayDeletedBeforeExit ==
  nodeProcess \in {"SIGINT", "SIGTERM"} => overlays = {}

(* C23: every file that disappears from the configuration directory is an    *)
(* overlay this manager instance wrote; an overlay written by another        *)
(* instance is never removed.                                                *)
C23_DeletesOnlyOwnOverlays ==
  [][\A n \in Listing \ Listing' : \E p \in overlays : n = tempConfigName(p)]_vars

(* C24: a tool handler has issued its request only if its call of            *)
(* ensureGatewayReady has resolved; while that call is in flight the handler *)
(* has done nothing, and when it has rejected the handler has issued no      *)
(* request and ends with the error as text content.                          *)
C24_ApiCallOnlyAfterEnsure ==
  \A c \in Handlers :
    /\ tool[c] = "called" => pc[c] = "done"
    /\ pc[c] = "rejected" => tool[c] \in {"none", "errorText"}
    /\ pc[c] \notin {"done", "rejected"} => tool[c] = "none"

(* both outcomes of a handler: one whose call was rejected has returned the  *)
(* error text                                                                *)
C24_Witness ==
  \E c \in Handlers : pc[c] = "rejected" /\ tool[c] = "errorText"

(* C25: at the step at which a tool handler issues its request, the port the *)
(* IBClient is configured with is the manager's current port.                *)
C25_ClientPortIsCurrentPort ==
  [][\A c \in Handlers : (tool[c] = "none" /\ tool'[c] = "called")
                           => clientPort = getCurrentPort]_vars

ModifyingTools == {"place_order", "confirm_order", "create_alert", "activate_alert", "delete_alert"}
ReadTools == {"get_positions", "get_market_data", "get_account_info",
              "get_live_orders", "get_order_status", "get_alerts"}

(* C26: a server created with IB_READ_ONLY_MODE true offers none of the      *)
(* modifying tools and all of the read tools; a server created with the      *)
(* option false or not given offers all of both.                             *)
C26_ReadOnlyHidesModifyingTools ==
  \A i \in 1..Len(servers) :
    LET offered == {servers[i].tools[k] : k \in 1..Len(servers[i].tools)}
        readOnly == servers[i].config.IB_READ_ONLY_MODE
    IN /\ readOnly = "true" => (offered \cap ModifyingTools = {} /\ ReadTools \subseteq offered)
       /\ readOnly \in {"false", "undefined"} => (ModifyingTools \cup ReadTools) \subseteq offered

(* one server created read-only and one created without the option *)
C26_Witness ==
  /\ \E i \in 1..Len(servers) : /\ servers[i].config.IB_READ_ONLY_MODE = "true"
                                /\ \E k \in 1..Len(servers[i].tools) : servers[i].tools[k] = "get_alerts"
  /\ \E i \in 1..Len(servers) : /\ servers[i].config.IB_READ_ONLY_MODE = "undefined"
                                /\ \E k \in 1..Len(servers[i].tools) : servers[i].tools[k] = "delete_alert"

(* the polls answered so far were all answered with not-ready *)
AllNotReady(answers) == \A k \in 1..Len(answers) : notReadyYet(answers[k])

(* C27: executeQuery issues at most maxRetries polls; without a reference    *)
(* code it issues none; what it returns is the first answer that is the      *)
(* statement or an error other than not-ready, or, after maxRetries          *)
(* not-ready answers, the not-ready-after-maxRetries error; and every call   *)
(* ends.                                                                     *)
C27_ExecuteQueryBoundedPolls ==
  /\ [](/\ flex.polls <= flex.maxRetries
        /\ flex.sent \in {"fail", "noReferenceCode", "throw"} => flex.polls = 0
        /\ (flex.st = "returned" /\ flex.sent = "referenceCode") =>
             LET n == Len(flex.answers)
             IN IF n > 0 /\ ~notReadyYet(flex.answers[n])
                THEN /\ flex.result = flex.answers[n]
                     /\ AllNotReady(SubSeq(flex.answers, 1, n - 1))
                ELSE /\ n = flex.maxRetries
                     /\ AllNotReady(flex.answers)
                     /\ flex.result = notReadyAfter(flex.maxRetries))
  /\ <>(flex.st \in {"returned", "thrown"})

(* a call that was given at least two retries, was answered not-ready on     *)
(* every poll and has returned the not-ready-after error                     *)
C27_Witness ==
  /\ flex.st = "returned"
  /\ flex.maxRetries >= 2
  /\ flex.polls = flex.maxRetries
  /\ flex.result = notReadyAfter(flex.maxRetries)

(* C28: once destroy() has been called the tickle interval is not running    *)
(* and no tickle request has been sent since.                                *)
C28_NoTickleAfterDestroy ==
  ibClient.destroyed => (~ibClient.tickleInterval /\ ~ibClient.tickledAfterDestroy)

(* every launch so far has come to nothing and nothing is under way: no      *)
(* startup sequence is running, no continuation is queued, no gateway of     *)
(* another host process is up, and no process launched by the manager is     *)
(* alive and has printed a readiness line or is listening (each has exited,  *)
(* failed to spawn, or is the silent survivor of a startup timeout)          *)
AttemptsFailed ==
  /\ spawnCount >= 1
  /\ \A o \in Owners : seq[o].st = "none"
  /\ mq = <<>>
  /\ extGateway = 0
  /\ \A p \in Procs : Alive(p) => (~procs[p].printed /\ procs[p].st # "listening")

(* C29: when every earlier attempt has failed (the managed process exited,   *)
(* or the startup timed out), a call of ensureGatewayReady does not return   *)
(* at once on a stale isReady, and when its discovery finds no gateway it    *)
(* begins a startup sequence of its own (which invokes the launcher) instead *)
(* of returning on a stale isStarting or waiting on a stale handle.          *)
C29_RetryAfterFailure ==
  [][\A c \in Callers :
       /\ (AttemptsFailed /\ pc[c] = "idle" /\ pc'[c] \in {"discover", "done"})
            => pc'[c] = "discover"
       /\ (AttemptsFailed /\ pc[c] = "discover" /\ pc'[c] # "discover"
             /\ findExistingGateway = 0)
            => (started(c) /\ isStarting' /\ pc'[c] = "awaitSeq")]_vars

(* the first call was rejected by the startup timeout and its process is     *)
(* still running; the second call has launched a second process and waits    *)
(* for it                                                                    *)
C29_Witness ==
  /\ pc[1] = "rejected"
  /\ Alive(1)
  /\ pc[2] = "awaitSeq"
  /\ seq[2].st = "waiting"
  /\ gatewayProcess = 2

(* C30: a startup sequence issues at most 30 health probes; it ends at the   *)
(* first probe that succeeds, by returning, or at the 30th failed probe, by  *)
(* throwing, and that step leaves the spawned processes as they are; and     *)
(* every sequence that waits for the gateway ends.                           *)
C30_StartupTerminates ==
  /\ [](probeCount <= 30)
  /\ [][\A c \in WaitCallers :
          /\ (seq[c].st = "waiting" /\ seq'[c].st = "none") =>
               IF checkGatewayHealth
               THEN pc'[c] = "done"
               ELSE /\ probeCount' = 30
                    /\ pc'[c] = "rejected"
                    /\ procs' = procs
          /\ (seq[c].st = "waiting" /\ seq'[c].st = "waiting" /\ probeCount' # probeCount)
               => ~checkGatewayHealth]_vars
  /\ \A c \in WaitCallers : (seq[c].st = "waiting") ~> (seq[c].st = "none")

(* the startup has timed out after 30 probes and the process it spawned is   *)
(* still running                                                             *)
C30_Witness ==
  /\ probeCount = 30
  /\ pc[1] = "rejected"
  /\ \E p \in Procs : Alive(p)

(* C31: while a startup sequence of the manager is between its spawn and    *)
(* the return of waitForGateway, no step spawns another process, whatever   *)
(* exit or error events and stopGateway calls came before.                  *)
C31_NoSpawnWhileSequenceInFlight ==
  [][(\E o \in Owners : seq[o].st = "waiting") => spawnCount' = spawnCount]_vars

(* the startup sequence that spawns in this step, if any *)
Spawner(o) == seq[o].st \in {"checkPort", "findPort", "writeConfig"} /\ seq'[o].st = "waiting"

(* C32: every spawn names the base configuration exactly if currentPort is  *)
(* 5000, and otherwise the overlay of currentPort, which the spawning       *)
(* sequence has written itself.                                             *)
C32_SpawnNamesWrittenConfig ==
  [][\A o \in Owners :
       Spawner(o)
         => /\ (procs'[gatewayProcess'].conf = 0) = (currentPort' = defaultPort)
            /\ procs'[gatewayProcess'].conf # 0
                 => /\ procs'[gatewayProcess'].conf = currentPort'
                    /\ seq[o].st = "writeConfig"
                    /\ seq[o].ovl = currentPort'
                    /\ currentPort' \in overlays']_vars

(* a call has returned or was rejected *)
Returned(c) == pc[c] \in {"done", "rejected", "quickDone", "stopDone", "unreachable"}

(* the latest call made on the manager is a stopGateway, and every call     *)
(* made before it has returned                                              *)
StoppedLast ==
  \E c \in Callers :
    /\ pc[c] = "stopDone"
    /\ \A d \in Callers : IF d < c THEN Returned(d) ELSE (d = c \/ pc[d] = "idle")

(* C33: from the return of stopGateway until the next call of the manager,  *)
(* no step sets isReady: neither the stdout handler of the disconnected     *)
(* process nor a startup sequence that was in flight at the stop.           *)
C33_StaysNotReadyAfterStop ==
  [][(StoppedLast /\ ~isReady) => ~isReady']_vars

(* C34: the exit event of a process that is not the stored process changes  *)
(* neither flag nor the stored handle.                                      *)
C34_StaleExitChangesNothing ==
  [][\A p \in Procs :
       (ProcExit(p) /\ gatewayProcess # p)
         => UNCHANGED <<isReady, isStarting, gatewayProcess>>]_vars

(* the fields of the IBClient, without the history kept beside them *)
clientFields(s) ==
  <<s.port, s.isAuthenticated, s.authAttempts, s.tickleInterval,
    [i \in Slots |-> <<s.auths[i].st, s.auths[i].port>>],
    [i \in Slots |-> <<s.checks[i].st, s.checks[i].port>>]>>

(* a step of the request interceptor *)
InterceptStep == session' = intercept(session) /\ session'.last \in {"sent", "maxExceeded", "authenticating"}

(* the steps that the claim names as resetting the counter *)
NamedReset == session'.last \in {"updatePort", "checkOk"}

(* C35, as stated: authAttempts stays within 0..3; once three attempts      *)
(* started since the last reset of the counter have failed, every request  *)
(* is rejected with the max-attempts error and sends nothing, and this     *)
(* lasts until an updatePort to another port or a successful               *)
(* checkAuthenticationStatus.                                              *)
C35_ExhaustedUntilNamedReset ==
  [][/\ session'.authAttempts \in 0..maxAuthAttempts
     /\ (session.failed = maxAuthAttempts /\ InterceptStep)
          => /\ session'.last = "maxExceeded"
             /\ clientFields(session') = clientFields(session)
     /\ (session.failed = maxAuthAttempts /\ session'.failed # maxAuthAttempts)
          => NamedReset]_vars

(* C35, as amended: authAttempts stays within 0..3; while it is 3 and the  *)
(* client is not authenticated every request is rejected with the          *)
(* max-attempts error and sends nothing; three failed attempts started     *)
(* since the last reset leave the client in that state; and the counter    *)
(* goes down only by an updatePort to another port, a successful           *)
(* checkAuthenticationStatus or the success of an authenticate() call,     *)
(* which may be one that was in flight since before the last reset.        *)
C35_ExhaustedUntilReset ==
  [][/\ session'.authAttempts \in 0..maxAuthAttempts
     /\ (session.authAttempts = maxAuthAttempts /\ ~session.isAuthenticated /\ InterceptStep)
          => /\ session'.last = "maxExceeded"
             /\ clientFields(session') = clientFields(session)
     /\ session'.failed = maxAuthAttempts
          => (session'.authAttempts = maxAuthAttempts /\ ~session'.isAuthenticated)
     /\ session'.authAttempts < session.authAttempts
          => session'.last \in {"updatePort", "checkOk", "authOk"}]_vars

C35_Witness ==
  /\ session.failed = maxAuthAttempts /\ session.authAttempts = maxAuthAttempts
  /\ ~session.isAuthenticated
  /\ session.last = "maxExceeded"

(* C36: after updatePort to another port the client is not authenticated   *)
(* and has no tickle timer, and it is authenticated or tickling only on    *)
(* the answer to a request that was sent to the port it is configured      *)
(* with; updatePort with the current port changes no field of the client.  *)
C36_AuthenticatedOnlyOnCurrentPort ==
  [][/\ session'.last = "updatePort"
          => (~session'.isAuthenticated /\ ~session'.tickleInterval)
     /\ (session'.isAuthenticated \/ session'.tickleInterval)
          => session'.authPort = session'.port
     /\ session'.last = "samePort"
          => clientFields(session') = clientFields(session)]_vars

(* no two queries of a list share their IB query id *)
UniqueQueryIds(queries) ==
  \A q1 \in queries, q2 \in queries : q1.queryId = q2.queryId => q1 = q2

(* C37: a saveQuery whose query id is stored is rejected, with the store   *)
(* as the file holds it and nothing written; and no two queries, in the    *)
(* file or in this.store, share a query id.                                *)
C37_QueryIdsUnique ==
  [][/\ \A k \in StorageCalls :
          (/\ storage.calls[k].op = "saveQuery"
           /\ storage.calls[k].st = "loading" /\ storage'.calls[k].st # "loading"
           /\ \E q \in storage.file : q.queryId = storage.calls[k].queryId)
            => /\ storage'.calls[k].st = "rejected"
               /\ storage'.store = storage.file
               /\ storage'.file = storage.file
     /\ UniqueQueryIds(storage'.file)
     /\ UniqueQueryIds(storage'.store)]_vars

(* every call made has resolved or was rejected *)
AllStorageCallsSettled ==
  \A k \in StorageCalls : storage.calls[k].st \in {"none", "done", "rejected"}

(* C38: once all calls have completed, the file holds the query of every   *)
(* saveQuery that resolved, unless a deleteQuery of that query resolved    *)
(* true.                                                                   *)
C38_NoLostUpdates ==
  AllStorageCallsSettled =>
    \A k \in StorageCalls :
      (storage.calls[k].op = "saveQuery" /\ storage.calls[k].st = "done")
        => \/ \E q \in storage.file : q.id = generateId(k)
           \/ \E d \in StorageCalls : /\ storage.calls[d].op = "deleteQuery"
                                      /\ storage.calls[d].id = generateId(k)
                                      /\ storage.calls[d].result = "deleted"

(* the requests of one kind that the placeOrder call has sent *)
SentCount(kind) == Cardinality({i \in 1..Len(order.sent) : order.sent[i] = kind})

OrderFinished == order.st \in {"returned", "thrown"}

(* the request asks for automatic confirmation and the gateway answered    *)
(* the order POST with a confirmation prompt                               *)
PromptToSuppress ==
  truthy(order.suppressConfirmations) /\ order.response.kind = "prompt"

====
